---- MODULE Spec2Model ----
(***************************************************************************)
(* Story progression state machine of the poll-story Telegram bot.         *)
(*                                                                         *)
(* One invocation of run_story_step (src/app/telegram_poster.py) loads the *)
(* persisted StoryState, closes the pending poll, generates and posts the  *)
(* next part of the story, posts a new poll and saves the state.  The      *)
(* step is sequential and suspends only at calls to its collaborators, so  *)
(* the model has one action per stage of the step and a program counter pc *)
(* that says which stage comes next.                                       *)
(*                                                                         *)
(* Texts are sequences of one-character strings.  Python's None is         *)
(* NoneText for a str-typed value and NoneId for a message id.             *)
(***************************************************************************)
EXTENDS Integers, Sequences, FiniteSets, TLC

(***************************************************************************)
(* Bounds of the model.                                                    *)
(***************************************************************************)
\* a step starts only while the platform has handed out at most this many
\* message ids
MaxMessageId == 4
\* largest vote count of one poll option
MaxVotes == 2
\* number of voters of a poll closed by a mock
MaxMockedVotes == 2

(***************************************************************************)
(* Python values.                                                          *)
(***************************************************************************)
\* None where a str is expected: a one-element sequence that is no text
NoneText == <<"None">>
\* None where a message id is expected; Telegram message ids are positive
NoneId == 0
\* None returned where a tuple is expected
NoneResult == <<>>

\* truthiness of a str | None value
Truthy(text) == text # NoneText /\ text # <<>>

IsSpace(c) == c \in {" ", "\n"}

RECURSIVE lstrip(_)
lstrip(s) == IF s # <<>> /\ IsSpace(Head(s)) THEN lstrip(Tail(s)) ELSE s

RECURSIVE rstrip(_)
rstrip(s) ==
    IF s # <<>> /\ IsSpace(s[Len(s)])
    THEN rstrip(SubSeq(s, 1, Len(s) - 1))
    ELSE s

\* str.strip()
strip(s) == rstrip(lstrip(s))

\* s[:n]
Prefix(s, n) == SubSeq(s, 1, IF Len(s) < n THEN Len(s) ELSE n)

\* len(s.split("."))
SentenceCount(s) == Cardinality({i \in 1..Len(s) : s[i] = "."}) + 1

(***************************************************************************)
(* Configuration (src/app/config.py).  The texts stand for the Russian     *)
(* strings of the configuration; only their identity and length matter.    *)
(***************************************************************************)
initial_story_idea == <<"i", ".">>
fallback_continue_prompt == <<"g", "o">>
end_story_option == <<"E", "N", "D">>
\* the values of STORY_MAX_SENTENCES the model runs with
StoryMaxSentencesValues == {2}

\* a Config that passed validate(): dry_run, whether GEMINI_TTS_MODEL is
\* set, and the sentence ceiling
Configs ==
    [dry_run : BOOLEAN,
     gemini_tts_model : BOOLEAN,
     story_max_sentences : StoryMaxSentencesValues]

\* the environment Config() reads: the merged mapping of the .env files
\* and os.environ; a variable is absent (NoneText), empty or set
EnvNames ==
    {"BOT_TOKEN", "CHANNEL_ID", "OPENAI_API_KEY", "OPENAI_BASE_URL",
     "GOOGLE_API_KEY", "GEMINI_API_KEY", "GEMINI_IMAGE_MODEL",
     "GEMINI_TTS_MODEL", "IMAGE_PROMPT_START", "INITIAL_STORY_IDEA"}

EnvValues == {NoneText, <<>>, <<"v">>}

Environments == [EnvNames -> EnvValues]

\* Config.__init__: the attributes validate() reads
Config(env) ==
    [bot_token |-> env["BOT_TOKEN"],
     channel_id |-> env["CHANNEL_ID"],
     openai_api_key |-> env["OPENAI_API_KEY"],
     openai_base_url |-> env["OPENAI_BASE_URL"],
     google_api_key |-> env["GOOGLE_API_KEY"],
     gemini_image_model |-> env["GEMINI_IMAGE_MODEL"],
     gemini_tts_model |-> env["GEMINI_TTS_MODEL"],
     image_prompt_start |-> env["IMAGE_PROMPT_START"],
     initial_story_idea |-> env["INITIAL_STORY_IDEA"]]

\* Config.validate: valid starts True and each failed check sets it False
validateNoGoogleKey(config) ==
    LET v1 == Truthy(config.bot_token)
        v2 == IF ~Truthy(config.channel_id) THEN FALSE ELSE v1
        v3 == IF ~Truthy(config.initial_story_idea) THEN FALSE ELSE v2
        v4 == IF ~Truthy(config.openai_api_key)
                 \/ ~Truthy(config.openai_base_url)
              THEN FALSE ELSE v3
        v5 == IF ~Truthy(config.gemini_image_model)
                 \/ ~Truthy(config.image_prompt_start)
              THEN FALSE ELSE v4
        v6 == IF ~Truthy(config.initial_story_idea) THEN FALSE ELSE v5
    IN  v6

validate(config) ==
    LET v1 == Truthy(config.bot_token)
        v2 == IF ~Truthy(config.channel_id) THEN FALSE ELSE v1
        v3 == IF ~Truthy(config.initial_story_idea) THEN FALSE ELSE v2
        v4 == IF ~Truthy(config.openai_api_key)
                 \/ ~Truthy(config.openai_base_url)
              THEN FALSE ELSE v3
        v5 == IF ~Truthy(config.google_api_key)
                 \/ ~Truthy(config.gemini_image_model)
                 \/ ~Truthy(config.image_prompt_start)
              THEN FALSE ELSE v4
        v6 == IF ~Truthy(config.initial_story_idea) THEN FALSE ELSE v5
    IN  v6

(***************************************************************************)
(* State store (src/app/state.py).                                         *)
(***************************************************************************)
StoryState(current_story, main_idea, last_poll_message_id, story_finished) ==
    [current_story |-> current_story,
     main_idea |-> main_idea,
     last_poll_message_id |-> last_poll_message_id,
     story_finished |-> story_finished]

ZeroState == StoryState(<<>>, <<>>, NoneId, FALSE)

\* the state file: missing, a YAML mapping, empty (yaml.load gives None) or
\* corrupt (yaml.load raises YAMLError); data is the mapping
FileMissing == [kind |-> "missing", data |-> ZeroState]
FileEmpty == [kind |-> "empty", data |-> ZeroState]
FileCorrupt == [kind |-> "corrupt", data |-> ZeroState]
FileMapping(state) == [kind |-> "mapping", data |-> state]

\* dict.get(key, default)
Get(mapping, key, default) ==
    IF key \in DOMAIN mapping THEN mapping[key] ELSE default

\* load_state: io is "ok" or "oserror" (open or read raises OSError).
\* Only OSError is caught: a YAMLError of a corrupt file and the
\* AttributeError of None.get on an empty file reach the caller.
load_stateOSErrorRaises(file, io) ==
    IF file.kind = "missing" THEN [raised |-> FALSE, state |-> ZeroState]
    ELSE IF io = "oserror" THEN [raised |-> TRUE, state |-> ZeroState]
    ELSE IF file.kind \in {"corrupt", "empty"}
         THEN [raised |-> TRUE, state |-> ZeroState]
    ELSE [raised |-> FALSE,
          state |-> StoryState(Get(file.data, "current_story", <<>>),
                               Get(file.data, "main_idea", <<>>),
                               Get(file.data, "last_poll_message_id", NoneId),
                               Get(file.data, "story_finished", FALSE))]

load_stateDropsNarrative(file, io) ==
    IF file.kind = "missing" THEN [raised |-> FALSE, state |-> ZeroState]
    ELSE IF io = "oserror" THEN [raised |-> FALSE, state |-> ZeroState]
    ELSE IF file.kind \in {"corrupt", "empty"}
         THEN [raised |-> TRUE, state |-> ZeroState]
    ELSE [raised |-> FALSE,
          state |-> StoryState(<<>>,
                               Get(file.data, "main_idea", <<>>),
                               Get(file.data, "last_poll_message_id", NoneId),
                               Get(file.data, "story_finished", FALSE))]

load_state(file, io) ==
    IF file.kind = "missing" THEN [raised |-> FALSE, state |-> ZeroState]
    ELSE IF io = "oserror" THEN [raised |-> FALSE, state |-> ZeroState]
    ELSE IF file.kind \in {"corrupt", "empty"}
         THEN [raised |-> TRUE, state |-> ZeroState]
    ELSE [raised |-> FALSE,
          state |-> StoryState(Get(file.data, "current_story", <<>>),
                               Get(file.data, "main_idea", <<>>),
                               Get(file.data, "last_poll_message_id", NoneId),
                               Get(file.data, "story_finished", FALSE))]

LoadIo == {"ok", "oserror"}

\* save_state: io is "ok", "open_fails" (open raises OSError, the file is
\* untouched), or "write_empty" / "write_partial" (open truncated the file
\* and the dump then raised OSError).  The OSError is caught.
save_state(file, state, dry_run, io) ==
    IF dry_run THEN file
    ELSE IF io = "ok" THEN FileMapping(state)
    ELSE IF io = "open_fails" THEN file
    ELSE IF io = "write_empty" THEN FileEmpty
    ELSE FileCorrupt

SaveIo == {"ok", "open_fails", "write_empty", "write_partial"}

\* whether save_state leaves by an exception: the failures of open and of
\* the dump are OSErrors, which the except clause of save_state absorbs
save_stateRaisesOSError(io) == io # "ok"

save_stateRaises(io) == FALSE

(***************************************************************************)
(* Poll resolver (get_poll_winner, src/app/telegram_poster.py).            *)
(***************************************************************************)
PollOption(text, voter_count) == [text |-> text, voter_count |-> voter_count]

\* the loop over the options of the closed poll: returns max_votes and
\* winning_options after the options from index i on
RECURSIVE WinnerLoopFirstOnly(_, _, _, _)
WinnerLoopFirstOnly(options, i, max_votes, winning_options) ==
    IF i > Len(options)
    THEN [max_votes |-> max_votes, winning_options |-> winning_options]
    ELSE IF options[i].voter_count > max_votes
         THEN WinnerLoopFirstOnly(options, i + 1, options[i].voter_count,
                                  <<options[i].text>>)
         ELSE WinnerLoopFirstOnly(options, i + 1, max_votes, winning_options)

RECURSIVE WinnerLoop(_, _, _, _)
WinnerLoop(options, i, max_votes, winning_options) ==
    IF i > Len(options)
    THEN [max_votes |-> max_votes, winning_options |-> winning_options]
    ELSE IF options[i].voter_count > max_votes
         THEN WinnerLoop(options, i + 1, options[i].voter_count,
                         <<options[i].text>>)
         ELSE IF options[i].voter_count = max_votes /\ max_votes > 0
              THEN WinnerLoop(options, i + 1, max_votes,
                              Append(winning_options, options[i].text))
              ELSE WinnerLoop(options, i + 1, max_votes, winning_options)

\* random.choice(seq): any element
Choice(seq) == {seq[i] : i \in 1..Len(seq)}

\* the values get_poll_winner may return for the options of a closed poll
PollWinnersRandom(options) == {o.text : o \in Choice(options)}

PollWinners(options) ==
    LET r == WinnerLoop(options, 1, -1, <<>>) IN
    IF r.max_votes > 0 /\ Len(r.winning_options) = 1
    THEN {r.winning_options[1]}
    ELSE IF r.max_votes > 0
         THEN Choice(r.winning_options)
         ELSE {o.text : o \in Choice(options)}

\* the outcomes of bot.stop_poll: the closed poll, or one of the
\* telegram.error exceptions
StopErrors == {"BadRequest_closed", "BadRequest_not_found", "Forbidden",
               "TelegramError"}

StopOk(options) == [outcome |-> "ok", options |-> options]
StopError(e) == [outcome |-> e, options |-> <<>>]

\* get_poll_winner: the set of values it may return (NoneText for None)
get_poll_winnerRaising(message_id, stop) ==
    IF message_id = NoneId THEN {NoneText}
    ELSE IF stop.outcome # "ok" THEN {<<"raised">>}
    ELSE IF stop.options = <<>> THEN {NoneText}
    ELSE PollWinners(stop.options)

get_poll_winner(message_id, stop) ==
    IF message_id = NoneId THEN {NoneText}
    ELSE IF stop.outcome # "ok" THEN {NoneText}
    ELSE IF stop.options = <<>> THEN {NoneText}
    ELSE PollWinners(stop.options)

(***************************************************************************)
(* Generation backend (src/app/open_ai_gen.py).                            *)
(***************************************************************************)
\* the responses of the completion API to the story request: an exception,
\* a response without the tool call, unparseable arguments, or arguments
\* (an absent key is NoneText)
StoryResponse(kind, story_part, main_idea) ==
    [kind |-> kind, story_part |-> story_part, main_idea |-> main_idea]

StoryResponses ==
    {StoryResponse("error", NoneText, NoneText),
     StoryResponse("no_tool_call", NoneText, NoneText),
     StoryResponse("bad_json", NoneText, NoneText),
     StoryResponse("arguments", <<"a", ".">>, <<"m">>),
     StoryResponse("arguments", <<" ", "b", "\n">>, <<" ", "n">>),
     StoryResponse("arguments", <<" ">>, <<"m">>),
     StoryResponse("arguments", <<>>, <<"m">>),
     StoryResponse("arguments", NoneText, <<"m">>),
     StoryResponse("arguments", <<"a", ".">>, <<" ">>),
     StoryResponse("arguments", <<"a", ".">>, NoneText)}

\* generate_story_continuation: NoneResult or (story_part, main_idea)
generate_story_continuation(response) ==
    IF response.kind # "arguments" THEN NoneResult
    ELSE IF /\ Truthy(response.story_part)
            /\ strip(response.story_part) # <<>>
            /\ Truthy(response.main_idea)
            /\ strip(response.main_idea) # <<>>
         THEN << <<"\n", "\n">> \o strip(response.story_part),
                 strip(response.main_idea) >>
         ELSE NoneResult

\* the return values the tests of run_story_step patch
\* generate_story_continuation with: a tuple without a story part
PatchedStoryResults == { <<NoneText, <<"m">> >> }

StoryResults ==
    {generate_story_continuation(r) : r \in StoryResponses}
        \cup PatchedStoryResults

\* the responses of the completion API to the poll request; options is the
\* "options" argument
PollResponse(kind, options) == [kind |-> kind, options |-> options]

LongOption == [i \in 1..95 |-> "x"]

PollResponses ==
    {PollResponse("error", <<>>),
     PollResponse("wrong_tool", <<>>),
     PollResponse("bad_json", <<>>),
     PollResponse("arguments", << <<" ", "A">>, <<"B">>, LongOption, <<"D">> >>),
     PollResponse("arguments", << <<"A">>, <<"B">>, <<" ">>, <<"D">> >>),
     PollResponse("arguments", << <<"A">>, <<"B">>, <<"C">> >>),
     PollResponse("arguments", << <<"A">>, <<"B">>, <<"C">>, <<"D">>, <<"F">> >>)}

\* [f(opt) for opt in options if opt.strip()]
RECURSIVE ValidatedOptions(_)
ValidatedOptions(options) ==
    IF options = <<>> THEN <<>>
    ELSE IF strip(Head(options)) # <<>>
         THEN <<Prefix(strip(Head(options)), 90)>>
                  \o ValidatedOptions(Tail(options))
         ELSE ValidatedOptions(Tail(options))

\* generate_poll_options: NoneResult or the list of four options.  With
\* make_end_story_option the assignment validated_options[3] raises
\* IndexError on a shorter list, which the function catches.
generate_poll_optionsKeepFourth(response, make_end_story_option) ==
    IF response.kind # "arguments" THEN NoneResult
    ELSE IF Len(response.options) # 4 THEN NoneResult
    ELSE IF Len(ValidatedOptions(response.options)) = 4
         THEN ValidatedOptions(response.options)
         ELSE NoneResult

generate_poll_optionsAnyLength(response, make_end_story_option) ==
    IF response.kind # "arguments" THEN NoneResult
    ELSE ValidatedOptions(response.options)

generate_poll_options(response, make_end_story_option) ==
    IF response.kind # "arguments" THEN NoneResult
    ELSE IF Len(response.options) # 4 THEN NoneResult
    ELSE LET validated_options == ValidatedOptions(response.options) IN
         IF make_end_story_option
         THEN IF Len(validated_options) < 4
              THEN NoneResult
              ELSE [validated_options EXCEPT ![4] = end_story_option]
         ELSE IF Len(validated_options) = 4
              THEN validated_options
              ELSE NoneResult

\* [opt[:90] for opt in poll_options]
TruncatedOptions(poll_options) ==
    [i \in 1..Len(poll_options) |-> Prefix(poll_options[i], 90)]

\* [s[i : i + n] for i in range(0, len(s), n)]
RECURSIVE ChunksOverlapping(_, _)
ChunksOverlapping(s, n) ==
    IF Len(s) = 0 THEN <<>>
    ELSE IF Len(s) <= n THEN <<s>>
    ELSE <<SubSeq(s, 1, n)>> \o ChunksOverlapping(SubSeq(s, n, Len(s)), n)

RECURSIVE Chunks(_, _)
Chunks(s, n) ==
    IF Len(s) = 0 THEN <<>>
    ELSE IF Len(s) <= n THEN <<s>>
    ELSE <<SubSeq(s, 1, n)>> \o Chunks(SubSeq(s, n + 1, Len(s)), n)

telegram_max_message_length == 4096
\* telegram.Poll.MAX_OPTION_LENGTH
MAX_OPTION_LENGTH == 100

(***************************************************************************)
(* State.                                                                  *)
(***************************************************************************)
VARIABLES
    state_file,       \* the persisted story_state.yaml
    polls,            \* the polls of the channel: message id -> poll
    next_message_id,  \* the id the platform gives to the next message
    pc,               \* the stage run_story_step is at, "idle" between steps
    step,             \* the locals of the current (or last) run_story_step
    resolved,         \* the last direct call of get_poll_winner
    twin,             \* a step run twice against the same mocked
                      \* collaborators: the responses and the first run
    validated         \* the last Config built from an environment, and
                      \* what its validate() returned

vars ==
    <<state_file, polls, next_message_id, pc, step, resolved, twin,
      validated>>

\* the locals of run_story_step before its first statement, and what the
\* step has done so far: calls is the sequence of its collaborator calls,
\* outcome is "running", "finished_noop" (early return), "ok", "aborted"
\* (exception caught at the top level) or "crashed" (exception raised to
\* the caller); "none" before the first step
FreshStep ==
    [config |-> [dry_run |-> FALSE, gemini_tts_model |-> FALSE,
                 story_max_sentences |-> 3],
     file_at_start |-> FileMissing,
     loaded |-> ZeroState,
     branch |-> "none",
     current_story |-> <<>>,
     main_idea |-> <<>>,
     last_poll_message_id |-> NoneId,
     poll_winner |-> NoneText,
     next_prompt |-> NoneText,
     new_poll_message_id |-> NoneId,
     new_story_part |-> NoneText,
     new_idea |-> NoneText,
     new_story_part_message |-> NoneId,
     finish_story |-> FALSE,
     sentences |-> 0,
     image |-> FALSE,
     audio |-> FALSE,
     make_end_story_option |-> FALSE,
     poll_options |-> NoneResult,
     posted_options |-> <<>>,
     save_called |-> FALSE,
     error |-> "",
     calls |-> <<>>,
     outcome |-> "none"]

\* no call of get_poll_winner on its own yet
NotResolved ==
    [message_id |-> NoneId, stop |-> StopError("TelegramError"),
     possible |-> {NoneText}, result |-> NoneText]

\* the responses the mocked collaborators give, before any is fixed
NoResponses ==
    [config |-> FreshStep.config, io |-> "ok",
     stop |-> StopError("TelegramError"), result |-> NoneResult,
     imagen_prompt |-> NoneText, image |-> "None", audio |-> FALSE,
     failing |-> 0, response |-> PollResponse("error", <<>>),
     send_fails |-> FALSE]

\* the state a mocked step starts from: the file, the polls of the channel
\* and the next message id
TwinStart(file, channel_polls, message_id) ==
    [file |-> file, polls |-> channel_polls, next_message_id |-> message_id]

\* run 0: the step is not run against mocks
TwinOff ==
    [run |-> 0, start |-> TwinStart(FileMissing, <<>>, 1),
     responses |-> NoResponses, mocked |-> {}, first |-> FreshStep]

\* no Config built yet
NotValidated ==
    [done |-> FALSE, env |-> [n \in EnvNames |-> NoneText], valid |-> FALSE]

Init ==
    /\ state_file = FileMissing
    /\ polls = <<>>
    /\ next_message_id = 1
    /\ pc = "idle"
    /\ step = FreshStep
    /\ resolved = NotResolved
    /\ twin = TwinOff
    /\ validated = NotValidated

\* a call of a collaborator, as the step log records it
Call(op, args) == [op |-> op, args |-> args]

\* the except clause at the end of run_story_step: the step ends, the
\* state is not saved
AbortSwallowed(s, error) ==
    /\ step' = [s EXCEPT !.error = error]
    /\ pc' = "poll"

AbortRaised(s, error) ==
    /\ step' = [s EXCEPT !.outcome = "crashed", !.error = error]
    /\ pc' = "idle"

Abort(s, error) ==
    /\ step' = [s EXCEPT !.outcome = "aborted", !.error = error]
    /\ pc' = "idle"

(***************************************************************************)
(* run_story_step, lines 97-117: load the state, return if finished.       *)
(***************************************************************************)
\* the early return of a finished story
ReturnsEarlyNever(story_finished) == FALSE

ReturnsEarly(story_finished) == story_finished

LoadAndStart(config, io) ==
    /\ pc = "idle"
    /\ LET r == load_state(state_file, io)
           s == [FreshStep EXCEPT !.config = config,
                                  !.file_at_start = state_file,
                                  !.calls = <<Call("load_state", io)>>]
       IN  IF r.raised
           THEN /\ step' = [s EXCEPT !.outcome = "crashed",
                                     !.error = "load_state"]
                /\ pc' = "idle"
           ELSE LET t == [s EXCEPT !.loaded = r.state,
                                   !.current_story = r.state.current_story,
                                   !.last_poll_message_id =
                                       r.state.last_poll_message_id,
                                   !.main_idea = r.state.main_idea]
                IN  IF ReturnsEarly(r.state.story_finished)
                    THEN /\ step' = [t EXCEPT !.outcome = "finished_noop",
                                              !.branch = "finished"]
                         /\ pc' = "idle"
                    ELSE /\ step' = [t EXCEPT !.outcome = "running"]
                         /\ pc' = "resolve"
    /\ UNCHANGED <<state_file, polls, next_message_id, resolved, twin, validated>>

\* a step is started while the channel has room for its messages
StartStep(config, io) ==
    /\ next_message_id <= MaxMessageId
    /\ LoadAndStart(config, io)

(***************************************************************************)
(* run_story_step, lines 129-140: resolve the pending poll.                *)
(***************************************************************************)
\* what bot.stop_poll may answer for a poll: an open poll is closed and
\* returned with its votes, a closed one raises BadRequest; a transport
\* error may happen at any time
Tallies(n) == [1..n -> 0..MaxVotes]

StopResults(poll) ==
    {StopError("TelegramError")}
        \cup (IF poll.closed
              THEN {StopError("BadRequest_closed")}
              ELSE {StopOk([i \in 1..Len(poll.options) |->
                               PollOption(poll.options[i], tally[i])])
                        : tally \in Tallies(Len(poll.options))})

\* whether the option with the given text got a vote in the closed poll
Voted(options, text) ==
    \E i \in 1..Len(options) :
        options[i].text = text /\ options[i].voter_count > 0

\* the step resolves its pending poll, stop being what bot.stop_poll answers
\* (not asked when there is no pending poll); the log keeps whether the
\* winner got a vote
Resolve(stop) ==
    /\ pc = "resolve"
    /\ IF step.last_poll_message_id # NoneId
       THEN \E poll_winner \in
                  get_poll_winner(step.last_poll_message_id, stop) :
               /\ polls' = IF stop.outcome = "ok"
                           THEN [polls EXCEPT
                                    ![step.last_poll_message_id].closed = TRUE]
                           ELSE polls
               /\ step' = [step EXCEPT
                     !.calls = Append(@, Call("stop_poll",
                                   [message_id |-> step.last_poll_message_id,
                                    outcome |-> stop.outcome,
                                    voted |-> Voted(stop.options,
                                                    poll_winner)])),
                     !.poll_winner = poll_winner,
                     !.next_prompt = IF Truthy(poll_winner)
                                     THEN poll_winner ELSE @,
                     !.finish_story = Truthy(poll_winner)
                                          /\ poll_winner = end_story_option]
       ELSE UNCHANGED <<polls, step>>
    /\ pc' = "generate"
    /\ UNCHANGED <<state_file, next_message_id, resolved, twin, validated>>

ResolvePoll ==
    /\ pc = "resolve"
    /\ \E stop \in IF step.last_poll_message_id # NoneId
                   THEN StopResults(polls[step.last_poll_message_id])
                   ELSE {StopError("TelegramError")} :
          Resolve(stop)

(***************************************************************************)
(* run_story_step, lines 142-153 and 175-199: pick the branch and ask the  *)
(* generation backend.  Unpacking a None result raises TypeError.          *)
(***************************************************************************)
\* sentences > config.story_max_sentences
TooManySentencesNever(sentences, story_max_sentences) == FALSE

TooManySentencesInclusive(sentences, story_max_sentences) ==
    sentences >= story_max_sentences

TooManySentences(sentences, story_max_sentences) ==
    sentences > story_max_sentences

\* if not next_prompt: next_prompt = config.fallback_continue_prompt
NextPromptFallback(next_prompt) == fallback_continue_prompt

NextPrompt(next_prompt) ==
    IF ~Truthy(next_prompt) THEN fallback_continue_prompt ELSE next_prompt

GenerateStory(result) ==
    /\ pc = "generate"
    /\ IF ~Truthy(step.current_story)
       THEN LET s == [step EXCEPT
                   !.branch = "bootstrap",
                   !.current_story = initial_story_idea,
                   !.calls = Append(@, Call("generate_story_continuation",
                                 [main_idea |-> step.main_idea,
                                  current_story |-> initial_story_idea,
                                  user_choice |-> <<>>,
                                  completion |-> <<0, 1>>,
                                  end_story |-> FALSE,
                                  result |-> result]))]
            IN  IF result = NoneResult
                THEN Abort(s, "TypeError")
                ELSE /\ step' = [s EXCEPT !.new_idea = result[2]]
                     /\ pc' = "assets"
       ELSE LET sentences == SentenceCount(step.current_story)
                finish_story ==
                    \/ step.finish_story
                    \/ TooManySentences(sentences,
                                        step.config.story_max_sentences)
                next_prompt == NextPrompt(step.next_prompt)
                s == [step EXCEPT
                   !.branch = "advancing",
                   !.sentences = sentences,
                   !.finish_story = finish_story,
                   !.next_prompt = next_prompt,
                   !.calls = Append(@, Call("generate_story_continuation",
                                 [main_idea |-> step.main_idea,
                                  current_story |-> step.current_story,
                                  user_choice |-> next_prompt,
                                  completion |->
                                      <<sentences,
                                        step.config.story_max_sentences>>,
                                  end_story |-> finish_story,
                                  result |-> result]))]
            IN  IF result = NoneResult
                THEN Abort(s, "TypeError")
                ELSE /\ step' = [s EXCEPT !.new_story_part = result[1],
                                          !.new_idea = result[2]]
                     /\ pc' = "assets"
    /\ UNCHANGED <<state_file, polls, next_message_id, resolved, twin, validated>>

(***************************************************************************)
(* run_story_step, lines 155-159 and 207-232: image prompt, image and      *)
(* audio, then the check of the story part.  make_gemini_image builds its  *)
(* client outside its try block, so it may raise.                          *)
(***************************************************************************)
ImagenPrompts == {NoneText, <<"p">>}
ImageResults == {"bytes", "None", "raises"}

\* not new_story_part or new_story_part.strip() == ""
StoryPartMissingNever(new_story_part) == FALSE

StoryPartMissing(new_story_part) ==
    ~Truthy(new_story_part) \/ strip(new_story_part) = <<>>

GenerateAssets(imagen_prompt, image, audio) ==
    /\ pc = "assets"
    /\ IF step.branch = "bootstrap"
       THEN /\ imagen_prompt = NoneText
            /\ image = "None"
            /\ step.config.gemini_tts_model \/ ~audio
            /\ step' = [step EXCEPT
                  !.audio = audio,
                  !.calls = IF step.config.gemini_tts_model
                            THEN Append(@, Call("generate_audio_from_text",
                                     [text |-> step.current_story,
                                      result |-> audio]))
                            ELSE @]
            /\ pc' = "post"
       ELSE LET c1 == Append(step.calls, Call("generate_imagen_prompt",
                          [story |-> step.new_story_part,
                           main_idea |-> step.new_idea,
                           result |-> imagen_prompt]))
                c2 == Append(c1, Call("make_gemini_image",
                          [prompt |-> IF Truthy(imagen_prompt)
                                      THEN imagen_prompt
                                      ELSE step.new_story_part,
                           result |-> image]))
                c3 == IF step.config.gemini_tts_model
                      THEN Append(c2, Call("generate_audio_from_text",
                               [text |-> step.new_story_part,
                                result |-> audio]))
                      ELSE c2
            IN  /\ step.config.gemini_tts_model \/ ~audio
                /\ IF image = "raises"
                   THEN Abort([step EXCEPT !.calls = c2], "make_gemini_image")
                   ELSE IF StoryPartMissing(step.new_story_part)
                   THEN Abort([step EXCEPT !.calls = c3,
                                           !.image = (image = "bytes"),
                                           !.audio = audio],
                              "RuntimeError")
                   ELSE /\ step' = [step EXCEPT !.calls = c3,
                                                !.image = (image = "bytes"),
                                                !.audio = audio]
                        /\ pc' = "post"
    /\ UNCHANGED <<state_file, polls, next_message_id, resolved, twin, validated>>

(***************************************************************************)
(* run_story_step, lines 160-173 and 234-274: post the content.            *)
(***************************************************************************)
\* a message the step is about to send; reply is the index, in the list of
\* the step's sends, of the message it replies to (0: no reply_parameters)
Send(op, text, reply) == [op |-> op, text |-> text, reply |-> reply]

\* the text messages of a story part
TextSends(new_story_part, photo) ==
    IF Len(new_story_part) > telegram_max_message_length
    THEN [i \in 1..Len(Chunks(new_story_part, telegram_max_message_length))
            |-> Send("send_message",
                     Chunks(new_story_part, telegram_max_message_length)[i],
                     0)]
    ELSE <<Send("send_message", new_story_part, photo)>>

\* if audio: whether the step posts an audio message
PostsAudioAlways(audio) == TRUE

PostsAudio(audio) == audio

\* the sends of the step, in program order
ContentSendsNoBootstrapAudio(s) ==
    IF s.branch = "bootstrap"
    THEN <<Send("send_message", initial_story_idea, 0)>>
    ELSE LET photo == IF s.image THEN <<Send("send_photo", NoneText, 0)>>
                      ELSE <<>>
             texts == TextSends(s.new_story_part, Len(photo))
         IN  photo \o texts
                 \o (IF s.audio
                     THEN <<Send("send_audio", NoneText,
                                 Len(photo) + Len(texts))>>
                     ELSE <<>>)

ContentSendsTextFirst(s) ==
    IF s.branch = "bootstrap"
    THEN <<Send("send_message", initial_story_idea, 0)>>
             \o (IF PostsAudio(s.audio)
                 THEN <<Send("send_audio", NoneText, 1)>>
                 ELSE <<>>)
    ELSE LET photo == IF s.image THEN <<Send("send_photo", NoneText, 0)>>
                      ELSE <<>>
             texts == TextSends(s.new_story_part, 0)
         IN  texts \o photo
                 \o (IF PostsAudio(s.audio)
                     THEN <<Send("send_audio", NoneText, Len(texts))>>
                     ELSE <<>>)

ContentSends(s) ==
    IF s.branch = "bootstrap"
    THEN <<Send("send_message", initial_story_idea, 0)>>
             \o (IF PostsAudio(s.audio)
                 THEN <<Send("send_audio", NoneText, 1)>>
                 ELSE <<>>)
    ELSE LET photo == IF s.image THEN <<Send("send_photo", NoneText, 0)>>
                      ELSE <<>>
             texts == TextSends(s.new_story_part, Len(photo))
         IN  photo \o texts
                 \o (IF PostsAudio(s.audio)
                     THEN <<Send("send_audio", NoneText,
                                 Len(photo) + Len(texts))>>
                     ELSE <<>>)

\* the log of the first n sends, of which the last one failed iff failed
SendLog(sends, first_id, n, failed) ==
    [k \in 1..n |->
        Call(sends[k].op,
             [text |-> sends[k].text,
              reply_to |-> IF sends[k].reply = 0 THEN NoneId
                           ELSE first_id + sends[k].reply - 1,
              message_id |-> IF failed /\ k = n THEN NoneId
                             ELSE first_id + k - 1,
              ok |-> ~(failed /\ k = n)])]

\* current_story += new_story_part
AppendStoryDropped(current_story, new_story_part) == new_story_part

AppendStory(current_story, new_story_part) == current_story \o new_story_part

\* failing = 0: every send succeeds; failing = k: the k-th send raises
PostContent(failing) ==
    /\ pc = "post"
    /\ LET sends == ContentSends(step) IN
       /\ failing \in 0..Len(sends)
       /\ IF failing > 0
          THEN /\ next_message_id' = next_message_id + failing - 1
               /\ Abort([step EXCEPT
                     !.calls = @ \o SendLog(sends, next_message_id,
                                            failing, TRUE)],
                        "TelegramError")
          ELSE /\ next_message_id' = next_message_id + Len(sends)
               /\ step' = [step EXCEPT
                     !.calls = @ \o SendLog(sends, next_message_id,
                                            Len(sends), FALSE),
                     !.new_story_part_message =
                         IF step.branch = "bootstrap" THEN NoneId
                         ELSE next_message_id + Len(sends) - 1
                                  - (IF step.audio THEN 1 ELSE 0),
                     !.current_story =
                         IF step.branch = "bootstrap" THEN @
                         ELSE AppendStory(@, step.new_story_part)]
               /\ pc' = "poll"
    /\ UNCHANGED <<state_file, polls, resolved, twin, validated>>

(***************************************************************************)
(* run_story_step, lines 275-321: the new poll.                            *)
(***************************************************************************)
\* sentences > config.story_max_sentences * 0.8; for integers the float
\* comparison agrees with 5 * sentences > 4 * story_max_sentences
MakeEndStoryOptionInclusive(sentences, story_max_sentences) ==
    5 * sentences >= 4 * story_max_sentences

MakeEndStoryOption(sentences, story_max_sentences) ==
    5 * sentences > 4 * story_max_sentences

\* if not finish_story: whether the step goes on to make a poll
SchedulesPollAlways(finish_story) == TRUE

SchedulesPoll(finish_story) == ~finish_story

\* not poll_options or len(poll_options) > telegram.Poll.MAX_OPTION_LENGTH
SkipsPollNever(poll_options) == FALSE

SkipsPoll(poll_options) ==
    poll_options = <<>> \/ Len(poll_options) > MAX_OPTION_LENGTH

SchedulePoll(response, send_fails) ==
    /\ pc = "poll"
    /\ IF SchedulesPoll(step.finish_story)
       THEN LET make_end_story_option ==
                    MakeEndStoryOption(step.sentences,
                                       step.config.story_max_sentences)
                poll_options ==
                    generate_poll_options(response, make_end_story_option)
                s == [step EXCEPT
                        !.make_end_story_option = make_end_story_option,
                        !.poll_options = poll_options,
                        !.calls = Append(@, Call("generate_poll_options",
                                  [current_story |-> step.current_story,
                                   make_end_story_option |->
                                       make_end_story_option,
                                   result |-> poll_options]))]
                send == [options |-> TruncatedOptions(poll_options),
                         reply_to |-> step.new_story_part_message,
                         message_id |-> IF send_fails THEN NoneId
                                        ELSE next_message_id,
                         ok |-> ~send_fails]
            IN  IF SkipsPoll(poll_options)
                THEN /\ ~send_fails
                     /\ step' = [s EXCEPT !.new_poll_message_id = NoneId]
                     /\ UNCHANGED <<polls, next_message_id>>
                ELSE IF send_fails
                THEN /\ step' = [s EXCEPT
                           !.new_poll_message_id = NoneId,
                           !.calls = Append(@, Call("send_poll", send))]
                     /\ UNCHANGED <<polls, next_message_id>>
                ELSE /\ step' = [s EXCEPT
                           !.new_poll_message_id = next_message_id,
                           !.posted_options = send.options,
                           !.calls = Append(@, Call("send_poll", send))]
                     /\ polls' = polls @@
                           (next_message_id :>
                                [options |-> send.options, closed |-> FALSE])
                     /\ next_message_id' = next_message_id + 1
       ELSE /\ ~send_fails
            /\ response = PollResponse("error", <<>>)
            /\ step' = [step EXCEPT !.new_poll_message_id = NoneId]
            /\ UNCHANGED <<polls, next_message_id>>
    /\ pc' = "persist"
    /\ UNCHANGED <<state_file, resolved, twin, validated>>

(***************************************************************************)
(* run_story_step, lines 323-333: save the state unless dry_run.           *)
(***************************************************************************)
\* the StoryState the step builds from its locals
PersistedStateKeepsPoll(s) ==
    StoryState(s.current_story, s.new_idea,
               IF s.new_poll_message_id # NoneId
               THEN s.new_poll_message_id ELSE s.last_poll_message_id,
               s.finish_story)

PersistedStateOldIdea(s) ==
    StoryState(s.current_story, s.main_idea, s.new_poll_message_id,
               s.finish_story)

PersistedState(s) ==
    StoryState(s.current_story, s.new_idea, s.new_poll_message_id,
               s.finish_story)

\* the state file after the last statements of the step
PersistedFileIgnoringDryRun(file, s, io) ==
    save_state(file, PersistedState(s), FALSE, io)

PersistedFile(file, s, io) ==
    IF ~s.config.dry_run
    THEN save_state(file, PersistedState(s), s.config.dry_run, io)
    ELSE file

PersistThenPoll(io) ==
    /\ pc = "persist"
    /\ state_file' = PersistedFile(state_file, step, io)
    /\ step' = [step EXCEPT
                  !.save_called = TRUE,
                  !.calls = Append(@, Call("save_state",
                                [state |-> PersistedState(step),
                                 io |-> io]))]
    /\ pc' = "poll"
    /\ UNCHANGED <<polls, next_message_id, resolved, twin, validated>>

Persist(io) ==
    /\ pc = "persist"
    /\ state_file' = PersistedFile(state_file, step, io)
    /\ IF ~step.config.dry_run
       THEN step' = [step EXCEPT
                      !.save_called = TRUE,
                      !.outcome = IF save_stateRaises(io)
                                  THEN "aborted" ELSE "ok",
                      !.error = IF save_stateRaises(io)
                                THEN "OSError" ELSE @,
                      !.calls = Append(@, Call("save_state",
                                    [state |-> PersistedState(step),
                                     io |-> io]))]
       ELSE /\ io = "ok"
            /\ step' = [step EXCEPT !.outcome = "ok"]
    /\ pc' = "idle"
    /\ UNCHANGED <<polls, next_message_id, resolved, twin, validated>>

Next ==
    \/ \E config \in Configs, io \in LoadIo : StartStep(config, io)
    \/ ResolvePoll
    \/ \E result \in StoryResults : GenerateStory(result)
    \/ \E imagen_prompt \in ImagenPrompts, image \in ImageResults,
          audio \in BOOLEAN : GenerateAssets(imagen_prompt, image, audio)
    \/ \E failing \in 0..4 : PostContent(failing)
    \/ \E response \in PollResponses, send_fails \in BOOLEAN :
          SchedulePoll(response, send_fails)
    \/ \E io \in SaveIo : Persist(io)

Spec == Init /\ [][Next]_vars

(***************************************************************************)
(* get_poll_winner applied on its own, to every closed poll of up to four  *)
(* options and to every failure of stop_poll.                              *)
(***************************************************************************)
OptionTexts == << <<"A">>, <<"B">>, <<"C">>, end_story_option >>

ClosedPolls ==
    UNION {{[i \in 1..n |-> PollOption(OptionTexts[i], tally[i])]
                : tally \in Tallies(n)} : n \in 0..4}

CallGetPollWinner(message_id, stop) ==
    /\ \E result \in get_poll_winner(message_id, stop) :
          resolved' = [message_id |-> message_id, stop |-> stop,
                       possible |-> get_poll_winner(message_id, stop),
                       result |-> result]
    /\ UNCHANGED <<state_file, polls, next_message_id, pc, step, twin,
                   validated>>

NextPollWinner ==
    \E message_id \in {NoneId, 1} :
    \E stop \in {StopOk(options) : options \in ClosedPolls}
                    \cup {StopError(e) : e \in StopErrors} :
        CallGetPollWinner(message_id, stop)

SpecPollWinner == Init /\ [][NextPollWinner]_vars

(***************************************************************************)
(* A step with dry_run run twice from the same persisted state against     *)
(* mocked collaborators, which answer the second run as they answered the  *)
(* first one (the same closed poll, the same texts, the same message ids). *)
(* The draw of random.choice is not a collaborator response.               *)
(***************************************************************************)
\* the options of a poll the step posted, with or without the end option
PostedOptions(make_end_story_option) ==
    TruncatedOptions(
        generate_poll_options(
            CHOOSE r \in PollResponses :
                generate_poll_options(r, FALSE) # NoneResult,
            make_end_story_option))

OpenPoll(message_id, make_end_story_option) ==
    message_id :> [options |-> PostedOptions(make_end_story_option),
                   closed |-> FALSE]

\* the story part of an earlier Advancing step
EarlierParts ==
    generate_story_continuation(
        StoryResponse("arguments", <<" ", "b", "\n">>, <<" ", "n">>))[1]

\* the persisted states the two runs start from: no file; the state after
\* a Bootstrap step that posted a poll; the state after a Bootstrap step
\* without a poll and an Advancing step that posted a poll with the end
\* option
TwinStarts ==
    {TwinStart(FileMissing, <<>>, 1),
     TwinStart(FileMapping(StoryState(initial_story_idea, <<"m">>, 2, FALSE)),
               OpenPoll(2, FALSE), 3),
     TwinStart(FileMapping(StoryState(initial_story_idea \o EarlierParts,
                                      <<"n">>, 3, FALSE)),
               OpenPoll(3, TRUE), 4)}

InitTwoRuns ==
    \E start \in TwinStarts :
        /\ state_file = start.file
        /\ polls = start.polls
        /\ next_message_id = start.next_message_id
        /\ pc = "idle"
        /\ step = FreshStep
        /\ resolved = NotResolved
        /\ twin = [TwinOff EXCEPT !.run = 1, !.start = start]
        /\ validated = NotValidated

\* the mock of the collaborators of one stage is given its responses, when
\* a run first reaches the stage
Mocked(stage, responses) ==
    /\ twin.run \in {1, 2}
    /\ pc = stage
    /\ stage \notin twin.mocked
    /\ twin' = [twin EXCEPT !.responses = responses,
                            !.mocked = @ \cup {stage}]
    /\ UNCHANGED <<state_file, polls, next_message_id, pc, step, resolved,
                   validated>>

MockLoad(config, io) ==
    /\ config.dry_run
    /\ step.outcome = "none"
    /\ Mocked("idle", [twin.responses EXCEPT !.config = config, !.io = io])

\* what the mocked bot.stop_poll may answer
\* (each voter votes for one option or abstains)
MockedStopResults(poll) ==
    {StopError("TelegramError")}
        \cup (IF poll.closed
              THEN {StopError("BadRequest_closed")}
              ELSE {StopOk([i \in 1..Len(poll.options) |->
                               PollOption(poll.options[i],
                                          Cardinality(
                                              {voter \in 1..MaxMockedVotes :
                                                  votes[voter] = i}))])
                        : votes \in [1..MaxMockedVotes
                                        -> 0..Len(poll.options)]})

MockStop ==
    /\ pc = "resolve"
    /\ \E stop \in IF step.last_poll_message_id # NoneId
                   THEN MockedStopResults(polls[step.last_poll_message_id])
                   ELSE {StopError("TelegramError")} :
          Mocked("resolve", [twin.responses EXCEPT !.stop = stop])

MockStory(result) ==
    /\ pc = "generate"
    /\ Mocked("generate", [twin.responses EXCEPT !.result = result])

MockAssets(imagen_prompt, image, audio) ==
    /\ pc = "assets"
    /\ step.branch = "bootstrap" => imagen_prompt = NoneText /\ image = "None"
    /\ step.config.gemini_tts_model \/ ~audio
    /\ Mocked("assets", [twin.responses EXCEPT
                            !.imagen_prompt = imagen_prompt,
                            !.image = image,
                            !.audio = audio])

MockSends(failing) ==
    /\ pc = "post"
    /\ failing \in 0..Len(ContentSends(step))
    /\ Mocked("post", [twin.responses EXCEPT !.failing = failing])

MockPoll(response, send_fails) ==
    /\ pc = "poll"
    /\ IF SchedulesPoll(step.finish_story)
       THEN send_fails =>
                ~SkipsPoll(generate_poll_options(response,
                               MakeEndStoryOption(step.sentences,
                                   step.config.story_max_sentences)))
       ELSE response = PollResponse("error", <<>>) /\ ~send_fails
    /\ Mocked("poll", [twin.responses EXCEPT !.response = response,
                                             !.send_fails = send_fails])

\* the stages of run_story_step against the mocks
TwinStartStep ==
    /\ "idle" \in twin.mocked
    /\ step.outcome = "none"
    /\ StartStep(twin.responses.config, twin.responses.io)

TwinResolve ==
    /\ "resolve" \in twin.mocked
    /\ Resolve(twin.responses.stop)

TwinGenerateStory ==
    /\ "generate" \in twin.mocked
    /\ GenerateStory(twin.responses.result)

TwinGenerateAssets ==
    /\ "assets" \in twin.mocked
    /\ GenerateAssets(twin.responses.imagen_prompt, twin.responses.image,
                      twin.responses.audio)

TwinPostContent ==
    /\ "post" \in twin.mocked
    /\ PostContent(twin.responses.failing)

TwinSchedulePoll ==
    /\ "poll" \in twin.mocked
    /\ SchedulePoll(twin.responses.response, twin.responses.send_fails)

TwinPersist ==
    /\ twin.run \in {1, 2}
    /\ Persist("ok")

\* the first run is over: the second one starts, the mocks are reset to
\* the polls and the message ids of the start
Rerun ==
    /\ twin.run = 1
    /\ pc = "idle"
    /\ step.outcome \notin {"none", "running"}
    /\ twin' = [twin EXCEPT !.run = 2, !.first = step]
    /\ step' = FreshStep
    /\ polls' = twin.start.polls
    /\ next_message_id' = twin.start.next_message_id
    /\ UNCHANGED <<state_file, pc, resolved, validated>>

NextTwoRuns ==
    \/ \E config \in Configs, io \in LoadIo : MockLoad(config, io)
    \/ MockStop
    \/ \E result \in StoryResults : MockStory(result)
    \/ \E imagen_prompt \in ImagenPrompts, image \in ImageResults,
          audio \in BOOLEAN : MockAssets(imagen_prompt, image, audio)
    \/ \E failing \in 0..4 : MockSends(failing)
    \/ \E response \in PollResponses, send_fails \in BOOLEAN :
          MockPoll(response, send_fails)
    \/ TwinStartStep
    \/ TwinResolve
    \/ TwinGenerateStory
    \/ TwinGenerateAssets
    \/ TwinPostContent
    \/ TwinSchedulePoll
    \/ TwinPersist
    \/ Rerun

SpecTwoRuns == InitTwoRuns /\ [][NextTwoRuns]_vars

(***************************************************************************)
(* Config() built from every environment, and validated.                   *)
(***************************************************************************)
InitConfig ==
    /\ state_file = FileMissing
    /\ polls = <<>>
    /\ next_message_id = 1
    /\ pc = "idle"
    /\ step = FreshStep
    /\ resolved = NotResolved
    /\ twin = TwinOff
    /\ \E env \in Environments :
          validated = [NotValidated EXCEPT !.env = env]

\* config = Config(); config.validate()
ValidateConfig ==
    /\ ~validated.done
    /\ validated' = [validated EXCEPT
                        !.done = TRUE,
                        !.valid = validate(Config(validated.env))]
    /\ UNCHANGED <<state_file, polls, next_message_id, pc, step, resolved,
                   twin>>

NextConfig == ValidateConfig

SpecConfig == InitConfig /\ [][NextConfig]_vars

(***************************************************************************)
(* Steps whose story part may be longer than one Telegram message, from    *)
(* the state a Bootstrap step with a poll leaves.                          *)
(***************************************************************************)
\* a story part of the backend that is one character over the limit
LongStoryPart == [i \in 1..(telegram_max_message_length + 1) |-> "x"]

LongStoryResults ==
    {generate_story_continuation(
         StoryResponse("arguments", LongStoryPart, <<"m">>)),
     generate_story_continuation(
         StoryResponse("arguments", <<"a", ".">>, <<"m">>))}

InitLongPart ==
    /\ state_file =
           FileMapping(StoryState(initial_story_idea, <<"m">>, 2, FALSE))
    /\ polls = OpenPoll(2, FALSE)
    /\ next_message_id = 3
    /\ pc = "idle"
    /\ step = FreshStep
    /\ resolved = NotResolved
    /\ twin = TwinOff
    /\ validated = NotValidated

NextLongPart ==
    \/ \E config \in Configs, io \in LoadIo : StartStep(config, io)
    \/ ResolvePoll
    \/ \E result \in LongStoryResults : GenerateStory(result)
    \/ \E imagen_prompt \in ImagenPrompts, image \in ImageResults,
          audio \in BOOLEAN : GenerateAssets(imagen_prompt, image, audio)
    \/ \E failing \in 0..4 : PostContent(failing)
    \/ \E response \in PollResponses, send_fails \in BOOLEAN :
          SchedulePoll(response, send_fails)
    \/ \E io \in SaveIo : Persist(io)

SpecLongPart == InitLongPart /\ [][NextLongPart]_vars

(***************************************************************************)
(* Steps under two sentence ceilings, from narratives of two and of four   *)
(* sentences that earlier steps without polls have left.                   *)
(***************************************************************************)
CeilingValues == {2, 5}

CeilingConfigs ==
    [dry_run : BOOLEAN,
     gemini_tts_model : BOOLEAN,
     story_max_sentences : CeilingValues]

\* the story part of an earlier Advancing step that ends a sentence
SentencePart ==
    generate_story_continuation(
        StoryResponse("arguments", <<"a", ".">>, <<"m">>))[1]

CeilingStarts ==
    {TwinStart(FileMapping(StoryState(initial_story_idea, <<"m">>,
                                      NoneId, FALSE)),
               <<>>, 2),
     TwinStart(FileMapping(StoryState(initial_story_idea \o SentencePart
                                          \o SentencePart,
                                      <<"m">>, NoneId, FALSE)),
               <<>>, 4)}

InitCeilings ==
    \E start \in CeilingStarts :
        /\ state_file = start.file
        /\ polls = start.polls
        /\ next_message_id = start.next_message_id
        /\ pc = "idle"
        /\ step = FreshStep
        /\ resolved = NotResolved
        /\ twin = TwinOff
        /\ validated = NotValidated

NextCeilings ==
    \/ \E config \in CeilingConfigs, io \in LoadIo : StartStep(config, io)
    \/ ResolvePoll
    \/ \E result \in StoryResults : GenerateStory(result)
    \/ \E imagen_prompt \in ImagenPrompts, image \in ImageResults,
          audio \in BOOLEAN : GenerateAssets(imagen_prompt, image, audio)
    \/ \E failing \in 0..4 : PostContent(failing)
    \/ \E response \in PollResponses, send_fails \in BOOLEAN :
          SchedulePoll(response, send_fails)
    \/ \E io \in SaveIo : Persist(io)

SpecCeilings == InitCeilings /\ [][NextCeilings]_vars

(***************************************************************************)
(* Steps invoked again and again until the story is finished.  The state   *)
(* file is read without errors and every continuation the backend returns  *)
(* has a '.'.  A collaborator may fail, but not forever: a call that is    *)
(* made again and again eventually succeeds (strong fairness of the        *)
(* successful outcomes).  The message id is an unbounded counter: a step   *)
(* that ends without saving after it has posted (a failing send after the  *)
(* first, a failing write, dry_run) happens only while next_message_id <=  *)
(* MaxMessageId, and steps are started while the id is at most             *)
(* MaxLiveMessageId, which leaves room for a step begun within the first   *)
(* bound and for the three steps (Bootstrap, Advancing, the finishing one) *)
(* of at most four messages each.                                          *)
(***************************************************************************)
MaxLiveMessageId == MaxMessageId + 4 + 3 * 4

CallsMayFail == next_message_id <= MaxMessageId

LiveStoryResults ==
    {generate_story_continuation(
         StoryResponse("arguments", <<"a", ".">>, <<"m">>))}

LivePollResponses ==
    {PollResponse("error", <<>>),
     PollResponse("arguments", << <<"A">>, <<"B">>, <<"C">>, <<"D">> >>)}

StoryGenerated == \E result \in LiveStoryResults : GenerateStory(result)

AssetsGenerated ==
    \E image \in ImageResults \ {"raises"}, audio \in BOOLEAN :
        GenerateAssets(NoneText, image, audio)

ContentSent == PostContent(0)

LiveConfigs ==
    [dry_run : BOOLEAN, gemini_tts_model : {FALSE},
     story_max_sentences : StoryMaxSentencesValues]

NextLive ==
    \/ \E config \in LiveConfigs :
          /\ next_message_id <= MaxLiveMessageId
          /\ config.dry_run => CallsMayFail
          /\ LoadAndStart(config, "ok")
    \/ ResolvePoll
    \/ StoryGenerated
    \/ GenerateStory(NoneResult)
    \/ AssetsGenerated
    \/ \E audio \in BOOLEAN : GenerateAssets(NoneText, "raises", audio)
    \/ ContentSent
    \/ \E failing \in 1..4 :
          /\ failing > 1 => CallsMayFail
          /\ PostContent(failing)
    \/ \E response \in LivePollResponses, send_fails \in BOOLEAN :
          SchedulePoll(response, send_fails)
    \/ \E io \in {"ok", "open_fails"} :
          /\ io # "ok" => CallsMayFail
          /\ Persist(io)

\* the scheduler keeps invoking steps, a step runs to its end, and the
\* generation backend, the asset backends and the sends succeed again and
\* again
SpecLive ==
    /\ Init
    /\ [][NextLive]_vars
    /\ WF_vars(NextLive)
    /\ SF_vars(StoryGenerated)
    /\ SF_vars(AssetsGenerated)
    /\ SF_vars(ContentSent)

(***************************************************************************)
(* The legacy top-level variant (src/telegram_poster.py, src/state.py,     *)
(* src/open_ai_gen.py, src/image_gen.py): run_story_step without premise   *)
(* and audio.  Its local variable sentences is assigned only in the        *)
(* continuation branch, so reading it in the poll stage of a first step    *)
(* raises UnboundLocalError, which the last except clause absorbs.         *)
(***************************************************************************)
STORY_MAX_SENTENCES == CHOOSE n \in StoryMaxSentencesValues : TRUE

\* the legacy state has no premise
LegacyState(current_story, last_poll_message_id, story_finished) ==
    StoryState(current_story, <<>>, last_poll_message_id, story_finished)

\* load_state of src/state.py: a missing file, an IOError and a
\* JSONDecodeError all give the default state
legacy_load_state(file, io) ==
    IF file.kind # "mapping" \/ io = "oserror"
    THEN LegacyState(<<>>, NoneId, FALSE)
    ELSE file.data

\* save_state of src/state.py: the IOError of open or of the dump is caught
legacy_save_state(file, state, io) ==
    IF io = "ok" THEN FileMapping(state)
    ELSE IF io = "open_fails" THEN file
    ELSE FileCorrupt

\* generate_story_continuation_openai: None or "\n\n" + story_part.strip()
generate_story_continuation_openai(response) ==
    IF response.kind # "arguments" THEN NoneText
    ELSE IF Truthy(response.story_part) /\ strip(response.story_part) # <<>>
         THEN <<"\n", "\n">> \o strip(response.story_part)
         ELSE NoneText

LegacyStoryResponses ==
    {StoryResponse("error", NoneText, NoneText),
     StoryResponse("arguments", <<" ">>, NoneText),
     StoryResponse("arguments", <<"a", ".">>, NoneText)}

\* generate_poll_options_openai validates the options as the packaged
\* generate_poll_options does
generate_poll_options_openai(response, make_end_story_option) ==
    generate_poll_options(response, make_end_story_option)

\* generate_imagen_prompt and make_gemini_image: neither guards its API
\* client, so each may raise; the image is bytes or None
LegacyAssets == {"prompt_raises", "image_raises", "bytes", "None"}

\* the locals of the legacy run_story_step; sentences_bound tells whether
\* the local variable sentences has been assigned
LegacyFreshStep ==
    [dry_run |-> FALSE,
     file_at_start |-> FileMissing,
     branch |-> "none",
     current_story |-> <<>>,
     last_poll_message_id |-> NoneId,
     next_prompt |-> NoneText,
     finish_story |-> FALSE,
     sentences_bound |-> FALSE,
     sentences |-> 0,
     new_story_part |-> NoneText,
     image |-> FALSE,
     text_message |-> NoneId,
     new_poll_message_id |-> NoneId,
     save_called |-> FALSE,
     error |-> "",
     calls |-> <<>>,
     outcome |-> "none"]

\* the state file at the first invocation: none, or one that is already
\* there (load_state fills in the keys an older file lacks) and holds the
\* introductory text
LegacyStartFiles ==
    {FileMissing,
     FileMapping(LegacyState(initial_story_idea, NoneId, FALSE))}

InitLegacy ==
    /\ state_file \in LegacyStartFiles
    /\ polls = <<>>
    /\ next_message_id = 1
    /\ pc = "idle"
    /\ step = LegacyFreshStep
    /\ resolved = NotResolved
    /\ twin = TwinOff
    /\ validated = NotValidated

\* src/telegram_poster.py 150-160: load the state, return if finished
LegacyStartStep(dry_run, io) ==
    /\ pc = "idle"
    /\ next_message_id <= MaxMessageId
    /\ LET state == legacy_load_state(state_file, io)
           s == [LegacyFreshStep EXCEPT
                   !.dry_run = dry_run,
                   !.file_at_start = state_file,
                   !.current_story = state.current_story,
                   !.last_poll_message_id = state.last_poll_message_id,
                   !.calls = <<Call("load_state", io)>>]
       IN  IF state.story_finished
           THEN /\ step' = [s EXCEPT !.outcome = "finished_noop",
                                     !.branch = "finished"]
                /\ pc' = "idle"
           ELSE /\ step' = [s EXCEPT !.outcome = "running"]
                /\ pc' = "resolve"
    /\ UNCHANGED <<state_file, polls, next_message_id, resolved, twin, validated>>

\* lines 170-183: the legacy get_poll_winner raises Forbidden again (139-144)
LegacyResolvePoll ==
    /\ pc = "resolve"
    /\ IF step.last_poll_message_id = NoneId
       THEN /\ pc' = "generate"
            /\ UNCHANGED <<polls, step>>
       ELSE \E stop \in StopResults(polls[step.last_poll_message_id])
                            \cup {StopError("Forbidden")} :
            LET s == [step EXCEPT
                        !.calls = Append(@, Call("stop_poll",
                                      [message_id |->
                                           step.last_poll_message_id,
                                       outcome |-> stop.outcome]))]
            IN  IF stop.outcome = "Forbidden"
                THEN /\ Abort(s, "Forbidden")
                     /\ UNCHANGED polls
                ELSE \E poll_winner \in
                         get_poll_winner(step.last_poll_message_id, stop) :
                     /\ polls' = IF stop.outcome = "ok"
                                 THEN [polls EXCEPT
                                    ![step.last_poll_message_id].closed = TRUE]
                                 ELSE polls
                     /\ step' = [s EXCEPT
                           !.next_prompt = IF Truthy(poll_winner)
                                           THEN poll_winner ELSE @,
                           !.finish_story = Truthy(poll_winner)
                                            /\ poll_winner = end_story_option]
                     /\ pc' = "generate"
    /\ UNCHANGED <<state_file, next_message_id, resolved, twin, validated>>

\* lines 185-189 and 197-234: pick the branch; the continuation branch
\* asks for the story part, the image prompt and the image
LegacyGenerate(response, assets) ==
    /\ pc = "generate"
    /\ IF ~Truthy(step.current_story)
       THEN /\ response = StoryResponse("error", NoneText, NoneText)
            /\ assets = "None"
            /\ step' = [step EXCEPT !.branch = "bootstrap",
                                    !.current_story = initial_story_idea]
            /\ pc' = "post"
       ELSE LET sentences == SentenceCount(step.current_story)
                new_story_part == generate_story_continuation_openai(response)
                s == [step EXCEPT
                        !.branch = "advancing",
                        !.sentences_bound = TRUE,
                        !.sentences = sentences,
                        !.finish_story =
                            @ \/ sentences > STORY_MAX_SENTENCES,
                        !.next_prompt = NextPrompt(@),
                        !.new_story_part = new_story_part,
                        !.calls = Append(@,
                            Call("generate_story_continuation_openai",
                                 [result |-> new_story_part]))]
            IN  IF new_story_part = NoneText
                THEN /\ assets = "None"
                     /\ Abort(s, "TypeError")
                ELSE IF assets = "prompt_raises"
                THEN Abort(s, "OpenAIError")
                ELSE IF assets = "image_raises"
                THEN Abort(s, "make_gemini_image")
                ELSE IF StoryPartMissing(new_story_part)
                THEN Abort(s, "RuntimeError")
                ELSE /\ step' = [s EXCEPT !.image = (assets = "bytes")]
                     /\ pc' = "post"
    /\ UNCHANGED <<state_file, polls, next_message_id, resolved, twin, validated>>

\* the sends of the legacy step, in program order
LegacySends(s) ==
    IF s.branch = "bootstrap"
    THEN <<Send("send_message", initial_story_idea, 0)>>
    ELSE (IF s.image THEN <<Send("send_photo", NoneText, 0)>> ELSE <<>>)
             \o <<Send("send_message", s.new_story_part,
                       IF s.image THEN 1 ELSE 0)>>

\* lines 190-196 and 236-261: post the content; a failing send is raised
\* again and ends the step
LegacyPostContent(failing) ==
    /\ pc = "post"
    /\ LET sends == LegacySends(step) IN
       /\ failing \in 0..Len(sends)
       /\ IF failing > 0
          THEN /\ next_message_id' = next_message_id + failing - 1
               /\ Abort([step EXCEPT
                     !.calls = @ \o SendLog(sends, next_message_id,
                                            failing, TRUE)],
                        "TelegramError")
          ELSE /\ next_message_id' = next_message_id + Len(sends)
               /\ step' = [step EXCEPT
                     !.calls = @ \o SendLog(sends, next_message_id,
                                            Len(sends), FALSE),
                     !.text_message =
                         IF step.branch = "bootstrap" THEN NoneId
                         ELSE next_message_id + Len(sends) - 1,
                     !.current_story =
                         IF step.branch = "bootstrap" THEN @
                         ELSE AppendStory(@, step.new_story_part)]
               /\ pc' = "poll"
    /\ UNCHANGED <<state_file, polls, resolved, twin, validated>>

\* lines 262-310: the new poll; sentences is read before it is assigned
\* when the step took the first branch
LegacySchedulePoll(response, send_fails) ==
    /\ pc = "poll"
    /\ IF step.finish_story
       THEN /\ ~send_fails
            /\ response = PollResponse("error", <<>>)
            /\ step' = [step EXCEPT !.new_poll_message_id = NoneId]
            /\ pc' = "persist"
            /\ UNCHANGED <<polls, next_message_id>>
       ELSE IF ~step.sentences_bound
       THEN /\ ~send_fails
            /\ response = PollResponse("error", <<>>)
            /\ Abort(step, "UnboundLocalError")
            /\ UNCHANGED <<polls, next_message_id>>
       ELSE LET make_end_story_option ==
                    MakeEndStoryOption(step.sentences, STORY_MAX_SENTENCES)
                poll_options ==
                    generate_poll_options_openai(response,
                                                 make_end_story_option)
                s == [step EXCEPT
                        !.calls = Append(@,
                            Call("generate_poll_options_openai",
                                 [make_end_story_option |->
                                      make_end_story_option,
                                  result |-> poll_options]))]
                send == [options |-> TruncatedOptions(poll_options),
                         reply_to |-> step.text_message,
                         message_id |-> IF send_fails THEN NoneId
                                        ELSE next_message_id,
                         ok |-> ~send_fails]
            IN  /\ pc' = "persist"
                /\ IF poll_options = <<>> \/ Len(poll_options) # 4
                   THEN /\ ~send_fails
                        /\ step' = [s EXCEPT !.new_poll_message_id = NoneId]
                        /\ UNCHANGED <<polls, next_message_id>>
                   ELSE IF send_fails
                   THEN /\ step' = [s EXCEPT
                              !.new_poll_message_id = NoneId,
                              !.calls = Append(@, Call("send_poll", send))]
                        /\ UNCHANGED <<polls, next_message_id>>
                   ELSE /\ step' = [s EXCEPT
                              !.new_poll_message_id = next_message_id,
                              !.calls = Append(@, Call("send_poll", send))]
                        /\ polls' = polls @@
                              (next_message_id :>
                                   [options |-> send.options,
                                    closed |-> FALSE])
                        /\ next_message_id' = next_message_id + 1
    /\ UNCHANGED <<state_file, resolved, twin, validated>>

\* lines 312-320: save the state unless DRY_RUN
LegacyPersist(io) ==
    /\ pc = "persist"
    /\ LET state == LegacyState(step.current_story,
                                step.new_poll_message_id,
                                step.finish_story)
       IN  IF ~step.dry_run
           THEN /\ state_file' = legacy_save_state(state_file, state, io)
                /\ step' = [step EXCEPT
                      !.save_called = TRUE,
                      !.outcome = "ok",
                      !.calls = Append(@, Call("save_state",
                                    [state |-> state, io |-> io]))]
           ELSE /\ io = "ok"
                /\ state_file' = state_file
                /\ step' = [step EXCEPT !.outcome = "ok"]
    /\ pc' = "idle"
    /\ UNCHANGED <<polls, next_message_id, resolved, twin, validated>>

NextLegacy ==
    \/ \E dry_run \in BOOLEAN, io \in LoadIo : LegacyStartStep(dry_run, io)
    \/ LegacyResolvePoll
    \/ \E response \in LegacyStoryResponses, assets \in LegacyAssets :
          LegacyGenerate(response, assets)
    \/ \E failing \in 0..2 : LegacyPostContent(failing)
    \/ \E response \in LivePollResponses, send_fails \in BOOLEAN :
          LegacySchedulePoll(response, send_fails)
    \/ \E io \in {"ok", "open_fails", "write_partial"} : LegacyPersist(io)

SpecLegacy == InitLegacy /\ [][NextLegacy]_vars

(***************************************************************************)
(* Properties.                                                             *)
(***************************************************************************)
\* the calls of the step with the given operation
CallsOf(op) == {i \in 1..Len(step.calls) : step.calls[i].op = op}

\* the state file holds a finished story
FinishedFile(file) == file.kind = "mapping" /\ file.data.story_finished

\* the step read the state file without an OS error
ReadOk == Len(step.calls) >= 1 /\ step.calls[1].args = "ok"

\* C1 (as stated): once the persisted state has finished = true, no later
\* step changes it.
C1_FinishedStateFrozen ==
    [][FinishedFile(state_file) => state_file' = state_file]_vars

\* C1 (amended): a step that reads a persisted state with finished = true
\* returns at once: its only call is load_state, it does not save, and the
\* persisted state is the one it started from.
C1_FinishedStepIsNoop ==
    (FinishedFile(step.file_at_start) /\ ReadOk) =>
        /\ pc = "idle"
        /\ step.outcome = "finished_noop"
        /\ Len(step.calls) = 1
        /\ ~step.save_called
        /\ state_file = step.file_at_start

C1_Witness ==
    /\ pc = "idle"
    /\ step.outcome = "finished_noop"
    /\ FinishedFile(state_file)

\* a collaborator call of the step failed: the poll could not be closed,
\* the generation backend gave no result (or, in an Advancing step, no
\* story part), or a content message could not be posted
StopPollFailed ==
    \E i \in CallsOf("stop_poll") : step.calls[i].args.outcome # "ok"

GenerationFailed ==
    \E i \in CallsOf("generate_story_continuation") :
        \/ step.calls[i].args.result = NoneResult
        \/ /\ step.branch = "advancing"
           /\ \/ step.calls[i].args.result[1] \in {NoneText, <<>>}
              \/ strip(step.calls[i].args.result[1]) = <<>>

PostingFailed ==
    \E i \in CallsOf("send_photo") \cup CallsOf("send_message")
                 \cup CallsOf("send_audio") : ~step.calls[i].args.ok

StateUntouched ==
    /\ ~step.save_called
    /\ CallsOf("save_state") = {}
    /\ state_file = step.file_at_start

\* C2 (as stated): when closing the poll, story generation or posting the
\* image, the text or the audio fails, the step does not write the state.
C2_AnyFailureLeavesState ==
    (StopPollFailed \/ GenerationFailed \/ PostingFailed) => StateUntouched

\* C2 (amended): when story generation or posting the image, the text or
\* the audio fails, the step ends without writing the state; a messaging
\* error while closing the poll is absorbed by the resolver.
C2_FatalFailureLeavesState ==
    (GenerationFailed \/ PostingFailed) =>
        /\ StateUntouched
        /\ pc \in {"idle", "assets"}
        /\ pc = "idle" => step.outcome = "aborted"

C2_Witness ==
    /\ step.outcome = "aborted"
    /\ step.branch = "advancing"
    /\ step.file_at_start.kind = "mapping"
    /\ \E i \in CallsOf("send_audio") : ~step.calls[i].args.ok
    /\ \E i \in CallsOf("send_message") : step.calls[i].args.ok

\* C3: an Advancing step whose continuation is empty or missing does not
\* call save_state, posts no story text and leaves the persisted state as
\* it was.
C3_EmptyContinuationLeavesState ==
    (step.branch = "advancing" /\ GenerationFailed) =>
        /\ StateUntouched
        /\ CallsOf("send_message") = {}
        /\ pc \in {"idle", "assets"}
        /\ pc = "idle" => step.outcome = "aborted"

C3_Witness ==
    /\ step.branch = "advancing"
    /\ step.outcome = "aborted"
    /\ step.error = "RuntimeError"
    /\ step.new_story_part = NoneText
    /\ Len(step.loaded.current_story) > Len(initial_story_idea)

\* C4: load_state never raises to run_story_step.
C4_LoadNeverRaises ==
    ~(step.outcome = "crashed" /\ step.error = "load_state")

\* C5: with dry_run the step does not call save_state and the persisted
\* state stays the one the step started from.
C5_DryRunLeavesState ==
    step.config.dry_run => StateUntouched

C5_Witness ==
    /\ step.config.dry_run
    /\ step.outcome = "ok"
    /\ step.branch = "advancing"
    /\ step.new_poll_message_id # NoneId
    /\ step.file_at_start.kind = "mapping"

\* the largest vote count of a closed poll, and the texts of the options
\* that attain it
MaxCount(options) ==
    CHOOSE m \in {options[i].voter_count : i \in 1..Len(options)} :
        \A i \in 1..Len(options) : options[i].voter_count <= m

TopTexts(options) ==
    {options[i].text :
        i \in {j \in 1..Len(options) :
                  options[j].voter_count = MaxCount(options)}}

\* C6: for a closed poll with options, get_poll_winner returns the text of
\* an option with the maximum vote count, and each such option is a
\* possible result.
C6_WinnerAttainsMaximum ==
    (/\ resolved.message_id # NoneId
     /\ resolved.stop.outcome = "ok"
     /\ resolved.stop.options # <<>>) =>
        /\ resolved.possible = TopTexts(resolved.stop.options)
        /\ resolved.result \in TopTexts(resolved.stop.options)

C6_Witness ==
    /\ resolved.message_id # NoneId
    /\ resolved.stop.outcome = "ok"
    /\ Len(resolved.stop.options) = 3
    /\ resolved.stop.options[1].voter_count = 2
    /\ resolved.stop.options[2].voter_count = 2
    /\ resolved.stop.options[3].voter_count = 1
    /\ resolved.result = resolved.stop.options[2].text

\* C7: get_poll_winner returns None, and does not raise, when the message
\* id is absent, when stop_poll fails with a messaging error, or when the
\* closed poll has no options.
C7_NoWinner ==
    (\/ resolved.message_id = NoneId
     \/ resolved.stop.outcome # "ok"
     \/ resolved.stop.options = <<>>) =>
        /\ resolved.possible = {NoneText}
        /\ resolved.result = NoneText

C7_Witness ==
    /\ resolved.message_id # NoneId
    /\ resolved.stop.outcome = "BadRequest_closed"
    /\ resolved.result = NoneText

\* the step saved its state and the write succeeded
SavedOk ==
    /\ pc = "idle"
    /\ step.outcome = "ok"
    /\ \E i \in CallsOf("save_state") : step.calls[i].args.io = "ok"

\* C8: a Bootstrap step that persists writes the introductory text as the
\* narrative, the premise returned by its one generation call, and
\* finished = false.
C8_BootstrapState ==
    (step.branch = "bootstrap" /\ SavedOk) =>
        /\ state_file.kind = "mapping"
        /\ state_file.data.current_story = initial_story_idea
        /\ Cardinality(CallsOf("generate_story_continuation")) = 1
        /\ \A i \in CallsOf("generate_story_continuation") :
              state_file.data.main_idea = step.calls[i].args.result[2]
        /\ state_file.data.story_finished = FALSE

C8_Witness ==
    /\ step.branch = "bootstrap"
    /\ SavedOk
    /\ step.loaded.current_story = <<>>
    /\ state_file.data.main_idea = <<"m">>
    /\ step.main_idea = <<>>

\* the sentence count of the narrative the step loaded
LoadedSentences == SentenceCount(step.loaded.current_story)

\* C9: an Advancing step that loaded more sentences than
\* story_max_sentences posts no poll, and the state it saves has
\* finished = true and no pending poll.
C9_LengthForcedFinish ==
    (/\ step.branch = "advancing"
     /\ LoadedSentences > step.config.story_max_sentences) =>
        /\ CallsOf("send_poll") = {}
        /\ CallsOf("generate_poll_options") = {}
        /\ \A i \in CallsOf("save_state") :
              /\ step.calls[i].args.state.story_finished
              /\ step.calls[i].args.state.last_poll_message_id = NoneId
        /\ SavedOk => /\ state_file.data.story_finished
                      /\ state_file.data.last_poll_message_id = NoneId

C9_Witness ==
    /\ step.branch = "advancing"
    /\ LoadedSentences > step.config.story_max_sentences
    /\ SavedOk
    /\ step.poll_winner \notin {NoneText, end_story_option}

\* C10: a poll posted while 0.8 * story_max_sentences < sentences <=
\* story_max_sentences has the end-story option as its fourth option.
C10_SoftThresholdPoll ==
    (/\ step.branch = "advancing"
     /\ 5 * LoadedSentences > 4 * step.config.story_max_sentences
     /\ LoadedSentences <= step.config.story_max_sentences) =>
        \A i \in CallsOf("send_poll") :
            step.calls[i].args.ok =>
                /\ Len(step.calls[i].args.options) = 4
                /\ step.calls[i].args.options[4] = end_story_option
                /\ polls[step.calls[i].args.message_id].options[4]
                       = end_story_option

C10_Witness ==
    /\ step.branch = "advancing"
    /\ 5 * LoadedSentences > 4 * step.config.story_max_sentences
    /\ LoadedSentences <= step.config.story_max_sentences
    /\ step.new_poll_message_id # NoneId
    /\ step.posted_options[4] = end_story_option

\* the states the step handed to save_state
SavedStates == {step.calls[i].args.state : i \in CallsOf("save_state")}

\* C11: every state the orchestrator persists (each argument of save_state
\* and each content of the state file) with finished = true has no pending
\* poll id.
C11_FinishedHasNoPendingPoll ==
    /\ \A state \in SavedStates :
          state.story_finished => state.last_poll_message_id = NoneId
    /\ FinishedFile(state_file) =>
          state_file.data.last_poll_message_id = NoneId

C11_Witness ==
    /\ SavedOk
    /\ FinishedFile(state_file)
    /\ step.last_poll_message_id # NoneId
    /\ step.poll_winner = end_story_option
    /\ state_file.data.last_poll_message_id = NoneId

\* the state file can be read as a mapping
Readable(file) == file.kind = "mapping"

\* C12 (as stated): while the persisted state is not finished, no step
\* makes the persisted narrative shorter (compared whenever the file is
\* readable before and after).
C12_NarrativeNeverShrinks ==
    [][(/\ Readable(state_file)
        /\ ~state_file.data.story_finished
        /\ Readable(state_file')) =>
            Len(state_file'.data.current_story)
                >= Len(state_file.data.current_story)]_vars

\* C12 (amended): an aborted step leaves the state file as it was; a step
\* whose save succeeds writes the narrative it loaded with its new part
\* appended (the introductory text when it loaded an empty narrative), so
\* the narrative is no shorter than the loaded one, and no shorter than
\* the one in the file when the file was read without an OS error.
C12_StepAppendsToLoaded ==
    /\ (pc = "idle" /\ step.outcome = "aborted") =>
           state_file = step.file_at_start
    /\ SavedOk =>
        /\ Readable(state_file)
        /\ state_file.data.current_story =
               IF step.loaded.current_story = <<>>
               THEN initial_story_idea
               ELSE step.loaded.current_story \o step.new_story_part
        /\ Len(state_file.data.current_story)
               >= Len(step.loaded.current_story)
        /\ (ReadOk /\ Readable(step.file_at_start)) =>
               Len(state_file.data.current_story)
                   >= Len(step.file_at_start.data.current_story)

C12_Witness ==
    /\ SavedOk
    /\ ReadOk
    /\ step.branch = "advancing"
    /\ Readable(step.file_at_start)
    /\ Len(step.file_at_start.data.current_story) > Len(initial_story_idea)
    /\ Len(state_file.data.current_story)
           > Len(step.file_at_start.data.current_story)

\* the polls the step posted: the message ids send_poll returned
PostedPolls ==
    {step.calls[i].args.message_id :
        i \in {j \in CallsOf("send_poll") : step.calls[j].args.ok}}

\* C13: a state handed to save_state with a pending poll id holds the id
\* of the one poll the step posted, which is a poll of the channel and is
\* not the id the step loaded; the state file never names a poll that was
\* not posted.
C13_PendingPollIsOwnPoll ==
    /\ \A state \in SavedStates :
          state.last_poll_message_id # NoneId =>
              /\ PostedPolls = {state.last_poll_message_id}
              /\ Cardinality(CallsOf("send_poll")) = 1
              /\ state.last_poll_message_id \in DOMAIN polls
              /\ state.last_poll_message_id # step.last_poll_message_id
    /\ (Readable(state_file)
            /\ state_file.data.last_poll_message_id # NoneId) =>
          state_file.data.last_poll_message_id \in DOMAIN polls

C13_Witness ==
    /\ SavedOk
    /\ step.last_poll_message_id # NoneId
    /\ state_file.data.last_poll_message_id # NoneId
    /\ state_file.data.last_poll_message_id # step.last_poll_message_id
    /\ PostedPolls = {state_file.data.last_poll_message_id}

\* the poll ids the step passed to stop_poll
StoppedPolls ==
    {step.calls[i].args.message_id : i \in CallsOf("stop_poll")}

\* C14 (as stated): a pending poll id is passed to stop_poll by at most one
\* step.  A poll is closed only by a successful stop_poll, and a step calls
\* stop_poll at most once, so a step that is told its poll is already
\* closed is a second step passing the same id.
C14_HandleStoppedByOneStep ==
    \A i \in CallsOf("stop_poll") :
        step.calls[i].args.outcome # "BadRequest_closed"

\* C14 (amended): a step calls stop_poll at most once, and only with the
\* pending poll id the state file held when the step started; a step that
\* saves replaces that id (by no id or by the id of its own new poll), so
\* the id is passed to stop_poll by every step from the one after its
\* creation up to the first one that saves, and by no step after that.
C14_HandleStoppedUntilSaved ==
    /\ Cardinality(CallsOf("stop_poll")) <= 1
    /\ \A id \in StoppedPolls :
          /\ id # NoneId
          /\ ReadOk
          /\ Readable(step.file_at_start)
          /\ id = step.file_at_start.data.last_poll_message_id
    /\ \A state \in SavedStates :
          state.last_poll_message_id \notin StoppedPolls
    /\ (SavedOk /\ StoppedPolls # {}) =>
          state_file.data.last_poll_message_id \notin StoppedPolls

C14_Witness ==
    /\ SavedOk
    /\ \E i \in CallsOf("stop_poll") :
          /\ step.calls[i].args.outcome = "BadRequest_closed"
          /\ step.calls[i].args.message_id
                 = step.file_at_start.data.last_poll_message_id
    /\ state_file.data.last_poll_message_id \notin StoppedPolls \cup {NoneId}

\* the stage of run_story_step a collaborator call belongs to
StageOf(op) ==
    CASE op = "load_state" -> 0
      [] op = "stop_poll" -> 1
      [] op \in {"generate_story_continuation", "generate_imagen_prompt",
                 "make_gemini_image", "generate_audio_from_text"} -> 2
      [] op \in {"send_photo", "send_message", "send_audio"} -> 3
      [] op \in {"generate_poll_options", "send_poll"} -> 4
      [] op = "save_state" -> 5

\* C15: the calls of a step come in the order load, poll resolution (one
\* stop_poll, exactly when the loaded state has a pending poll), content
\* generation, posting of content, poll options and poll, save; a call is
\* never followed by a call of an earlier stage, save_state is called at
\* most once and nothing is called after it.
C15_StagesInOrder ==
    /\ \A i \in 1..(Len(step.calls) - 1) :
          StageOf(step.calls[i].op) <= StageOf(step.calls[i + 1].op)
    /\ \A i \in CallsOf("stop_poll") :
          i = 2 /\ step.last_poll_message_id # NoneId
    /\ (CallsOf("generate_story_continuation") # {}
            /\ step.last_poll_message_id # NoneId) =>
          CallsOf("stop_poll") # {}
    /\ Cardinality(CallsOf("save_state")) <= 1
    /\ \A i \in CallsOf("save_state") :
          /\ i = Len(step.calls)
          /\ pc = "idle"
          /\ CallsOf("generate_story_continuation") # {}
          /\ CallsOf("send_message") # {}

C15_Witness ==
    /\ SavedOk
    /\ CallsOf("stop_poll") # {}
    /\ CallsOf("make_gemini_image") # {}
    /\ CallsOf("generate_audio_from_text") # {}
    /\ CallsOf("send_photo") # {}
    /\ CallsOf("send_audio") # {}
    /\ CallsOf("send_poll") # {}
    /\ Len(step.calls) = 12

\* C16: the state an Advancing step hands to save_state, and the file it
\* writes, has finished = true exactly when the loaded narrative has more
\* sentences than story_max_sentences or the poll winner is the end-story
\* option.
C16_FinishedIffForced ==
    step.branch = "advancing" =>
        LET forced == \/ LoadedSentences > step.config.story_max_sentences
                      \/ step.poll_winner = end_story_option
        IN  /\ \A state \in SavedStates : state.story_finished <=> forced
            /\ SavedOk => (state_file.data.story_finished <=> forced)

C16_Witness ==
    /\ step.branch = "advancing"
    /\ SavedOk
    /\ LoadedSentences = step.config.story_max_sentences
    /\ step.poll_winner = end_story_option
    /\ state_file.data.story_finished

\* the response to the poll request is an error, has no usable arguments,
\* or does not hold exactly four strings that are non-empty when stripped
FailsToYieldFour(response) ==
    \/ response.kind # "arguments"
    \/ Len(response.options) # 4
    \/ \E i \in 1..Len(response.options) : strip(response.options[i]) = <<>>

\* the step asked for poll options and got none
NoPollOptions ==
    \E i \in CallsOf("generate_poll_options") :
        step.calls[i].args.result = NoneResult

\* the narrative and the premise the step is to save
StepNarrative ==
    IF step.branch = "bootstrap" THEN initial_story_idea
    ELSE step.loaded.current_story \o step.new_story_part

StepPremise ==
    step.calls[CHOOSE i \in CallsOf("generate_story_continuation") : TRUE]
        .args.result[2]

\* C17: when a step has asked for poll options, every response that fails
\* to yield four valid options makes generate_poll_options return None;
\* the step that got None posts no poll, is not aborted, and the state it
\* saves has no pending poll id and holds the step's narrative and premise.
C17_NoOptionsNoPoll ==
    /\ pc = "persist" =>
          \A response \in PollResponses :
              FailsToYieldFour(response) =>
                  generate_poll_options(response, step.make_end_story_option)
                      = NoneResult
    /\ NoPollOptions =>
          /\ CallsOf("send_poll") = {}
          /\ pc \in {"persist", "idle"}
          /\ pc = "idle" => step.outcome = "ok"
          /\ \A state \in SavedStates :
                state = StoryState(StepNarrative, StepPremise, NoneId, FALSE)
          /\ SavedOk =>
                state_file =
                    FileMapping(StoryState(StepNarrative, StepPremise,
                                           NoneId, FALSE))

C17_Witness ==
    /\ NoPollOptions
    /\ SavedOk
    /\ step.branch = "advancing"
    /\ step.last_poll_message_id # NoneId
    /\ state_file.data.last_poll_message_id = NoneId
    /\ Len(state_file.data.current_story) > Len(step.loaded.current_story)

\* an asset backend of the step failed: no image prompt, no image (None
\* returned or an exception raised), or no audio
AssetFailed ==
    \/ \E i \in CallsOf("generate_imagen_prompt") :
          step.calls[i].args.result = NoneText
    \/ \E i \in CallsOf("make_gemini_image") :
          step.calls[i].args.result # "bytes"
    \/ \E i \in CallsOf("generate_audio_from_text") :
          ~step.calls[i].args.result

\* C18: an Advancing step with a usable continuation in which the image
\* prompt, the image or the audio failed is not aborted on that account:
\* unless a send fails, it posts the story text and saves the state.
C18_AssetFailureNeverAborts ==
    (/\ step.branch = "advancing"
     /\ AssetFailed
     /\ ~GenerationFailed
     /\ ~PostingFailed) =>
        /\ step.outcome # "aborted"
        /\ pc = "idle" =>
              /\ CallsOf("send_message") # {}
              /\ step.config.dry_run \/ CallsOf("save_state") # {}

\* the step called save_state and the write failed
WriteFailed ==
    \E i \in CallsOf("save_state") : step.calls[i].args.io # "ok"

\* C19: a step whose save_state fails with an I/O error still ends
\* normally: the error is not raised to the step or to its caller, all
\* posts of the step succeeded, and the file is the one the step started
\* from or what the failed write left of it.
C19_WriteFailureAbsorbed ==
    WriteFailed =>
        /\ pc = "idle"
        /\ step.outcome = "ok"
        /\ step.error = ""
        /\ ~PostingFailed
        /\ state_file \in {step.file_at_start, FileEmpty, FileCorrupt}

C19_Witness ==
    /\ WriteFailed
    /\ step.branch = "advancing"
    /\ step.new_poll_message_id # NoneId
    /\ state_file = FileCorrupt
    /\ pc = "idle"
    /\ step.outcome = "ok"

\* both runs of the step against the mocks are over
TwoRunsDone ==
    /\ twin.run = 2
    /\ pc = "idle"
    /\ step.outcome \notin {"none", "running"}

\* C20 (as stated): two runs with dry_run from the same persisted state
\* and with the same collaborator responses make the same calls, in the
\* same order, with the same arguments.
C20_TwoRunsSameCalls ==
    TwoRunsDone => step.calls = twin.first.calls

\* the closed poll leaves nothing to random.choice: there is no pending
\* poll, stop_poll failed, or one option alone has the most votes
WinnerDetermined ==
    \/ twin.first.last_poll_message_id = NoneId
    \/ twin.responses.stop.outcome # "ok"
    \/ /\ Cardinality(TopTexts(twin.responses.stop.options)) = 1
       /\ MaxCount(twin.responses.stop.options) > 0

\* C20 (amended): the two runs make the same calls, end the same way and
\* leave the persisted state as it was, provided the closed poll has one
\* option with the most votes (or there is no poll to resolve, or closing
\* it fails).
C20_TwoRunsSameCallsDeterminedWinner ==
    (TwoRunsDone /\ WinnerDetermined) =>
        /\ step.calls = twin.first.calls
        /\ step.outcome = twin.first.outcome
        /\ state_file = twin.start.file

C20_Witness ==
    /\ TwoRunsDone
    /\ twin.first.last_poll_message_id # NoneId
    /\ twin.responses.stop.outcome = "ok"
    /\ Cardinality(TopTexts(twin.responses.stop.options)) = 1
    /\ MaxCount(twin.responses.stop.options) > 0
    /\ step.outcome = "ok"
    /\ CallsOf("send_poll") # {}
    /\ step.calls = twin.first.calls

\* the poll the step closed gave the end-story option as the winner, and
\* the option had at least one vote
SentinelVoted ==
    \E i \in CallsOf("stop_poll") :
        step.poll_winner = end_story_option /\ step.calls[i].args.voted

\* C21: a step whose closed poll gave the end-story option no vote, and
\* whose loaded narrative is within story_max_sentences, does not finish
\* the story: finish_story stays false and no state with finished = true is
\* saved.
C21_SentinelNeedsVote ==
    (/\ step.branch = "advancing"
     /\ LoadedSentences <= step.config.story_max_sentences
     /\ ~SentinelVoted) =>
        /\ ~step.finish_story
        /\ \A state \in SavedStates : ~state.story_finished

\* the text messages the step posted, and the first and the last of them
TextMessages ==
    {i \in CallsOf("send_message") : step.calls[i].args.ok}

FirstText == CHOOSE i \in TextMessages : \A j \in TextMessages : i <= j

LastText == CHOOSE i \in TextMessages : \A j \in TextMessages : i >= j

\* C22: in an Advancing step the first text message replies to the image
\* message when an image was posted, and the audio and the poll reply to
\* the last text message.
C22_ReplyChained ==
    step.branch = "advancing" =>
        /\ \A p \in CallsOf("send_photo") :
              (step.calls[p].args.ok /\ TextMessages # {}) =>
                  step.calls[FirstText].args.reply_to
                      = step.calls[p].args.message_id
        /\ \A a \in CallsOf("send_audio") :
              step.calls[a].args.reply_to
                  = step.calls[LastText].args.message_id
        /\ \A q \in CallsOf("send_poll") :
              step.calls[q].args.reply_to
                  = step.calls[LastText].args.message_id

\* the generation backend returned None instead of a tuple
NoStoryResult ==
    \E i \in CallsOf("generate_story_continuation") :
        step.calls[i].args.result = NoneResult

\* the construction of the image client raised
ImageRaised ==
    \E i \in CallsOf("make_gemini_image") :
        step.calls[i].args.result = "raises"

C24_NoAudioOnEmptyContinuation ==
    (step.branch = "advancing" /\ GenerationFailed) =>
        /\ CallsOf("generate_audio_from_text") = {}
        /\ CallsOf("send_audio") = {}

\* the audio backend returned audio bytes
AudioReturned ==
    \E i \in CallsOf("generate_audio_from_text") : step.calls[i].args.result

\* every content message of the step was posted
ContentPosted ==
    /\ pc \in {"poll", "persist"} \/ (pc = "idle" /\ step.outcome = "ok")
    /\ ~PostingFailed

NoAudio == ~step.config.gemini_tts_model \/ ~AudioReturned

\* C26: the audio backend is called only when text-to-speech is configured
\* and at most once; an audio message is posted only when the backend
\* returned bytes; a step without audio in which generation, the image
\* client and the posts did not fail posts its text and ends normally, with
\* save_state called unless dry_run.
C26_AudioOptional ==
    /\ CallsOf("generate_audio_from_text") # {} =>
          step.config.gemini_tts_model
    /\ Cardinality(CallsOf("generate_audio_from_text")) <= 1
    /\ CallsOf("send_audio") # {} => AudioReturned
    /\ (/\ step.branch \in {"bootstrap", "advancing"}
        /\ pc = "idle"
        /\ NoAudio
        /\ ~NoStoryResult
        /\ ~GenerationFailed
        /\ ~ImageRaised
        /\ ~PostingFailed) =>
          /\ step.outcome = "ok"
          /\ \E i \in CallsOf("send_message") : step.calls[i].args.ok
          /\ CallsOf("send_audio") = {}
          /\ step.config.dry_run \/ CallsOf("save_state") # {}

C26_Witness ==
    /\ step.branch = "advancing"
    /\ step.config.gemini_tts_model
    /\ CallsOf("generate_audio_from_text") # {}
    /\ ~AudioReturned
    /\ SavedOk
    /\ CallsOf("send_audio") = {}
    /\ \E i \in CallsOf("send_message") : step.calls[i].args.ok

\* every variable of the set is set to a non-empty value
AllSet(env, names) == \A n \in names : Truthy(env[n])

GenerationCall ==
    step.calls[CHOOSE i \in CallsOf("generate_story_continuation") : TRUE]
        .args

\* C28: the state an Advancing step saves has the loaded narrative with the
\* new story part appended and the premise the backend returned in the
\* step; a step that saves finished = true has asked the backend for the
\* concluding part (end_story) and has posted that part before.
C28_AdvancingStateAssembled ==
    step.branch = "advancing" =>
        /\ \A state \in SavedStates :
              /\ Cardinality(CallsOf("generate_story_continuation")) = 1
              /\ GenerationCall.current_story = step.loaded.current_story
              /\ state.current_story
                     = step.loaded.current_story \o GenerationCall.result[1]
              /\ state.main_idea = GenerationCall.result[2]
              /\ state.story_finished = GenerationCall.end_story
              /\ \E i \in CallsOf("send_message") :
                    /\ step.calls[i].args.ok
                    /\ step.calls[i].args.text = GenerationCall.result[1]
        /\ SavedOk =>
              /\ state_file.data.current_story
                     = step.loaded.current_story \o GenerationCall.result[1]
              /\ state_file.data.main_idea = GenerationCall.result[2]

C28_Witness ==
    /\ step.branch = "advancing"
    /\ SavedOk
    /\ state_file.data.story_finished
    /\ GenerationCall.end_story
    /\ state_file.data.main_idea # step.loaded.main_idea
    /\ Len(state_file.data.current_story) > Len(step.loaded.current_story)

\* the step closed its pending poll and got the closed poll back
PollClosed ==
    \E i \in CallsOf("stop_poll") : step.calls[i].args.outcome = "ok"

\* C29: the generation call of an Advancing step is passed the poll winner
\* as the choice when the resolution gave one, and the fallback prompt when
\* there was no pending poll or the resolution gave none; its end_story
\* argument is the finish decision of the step (the loaded narrative is
\* over the ceiling or the winner is the end-story option).
C29_ChoiceAndFinishPassed ==
    step.branch = "advancing" =>
        /\ ~PollClosed => step.poll_winner = NoneText
        /\ \A i \in CallsOf("generate_story_continuation") :
              /\ step.calls[i].args.user_choice =
                     IF step.poll_winner # NoneText
                     THEN step.poll_winner
                     ELSE fallback_continue_prompt
              /\ step.calls[i].args.end_story = step.finish_story
              /\ step.calls[i].args.end_story <=>
                     \/ LoadedSentences > step.config.story_max_sentences
                     \/ step.poll_winner = end_story_option

C29_Witness ==
    /\ step.branch = "advancing"
    /\ SavedOk
    /\ PollClosed
    /\ step.poll_winner \notin {NoneText, end_story_option}
    /\ GenerationCall.user_choice = step.poll_winner
    /\ ~GenerationCall.end_story

\* the sentence count the poll scheduler uses: that of the narrative the
\* step loaded, 0 in a Bootstrap step
SchedulerSentences ==
    IF step.branch = "bootstrap" THEN 0 ELSE LoadedSentences

\* C30: generate_poll_options is asked for the end-story option exactly
\* when 5 * sentences > 4 * story_max_sentences, sentences being the count
\* of the loaded narrative (0 in a Bootstrap step); asked without it, the
\* options it returns are the validated options of the response, so the
\* end-story option is not put in the fourth place.
C30_EndOptionThreshold ==
    \A i \in CallsOf("generate_poll_options") :
        /\ step.sentences = SchedulerSentences
        /\ step.calls[i].args.make_end_story_option <=>
              5 * SchedulerSentences > 4 * step.config.story_max_sentences
        /\ ~step.calls[i].args.make_end_story_option =>
              /\ \A k \in 1..Len(step.calls[i].args.result) :
                    step.calls[i].args.result[k] # end_story_option
              /\ \A q \in CallsOf("send_poll") :
                    \A k \in 1..Len(step.calls[q].args.options) :
                        step.calls[q].args.options[k] # end_story_option

C30_Witness ==
    /\ step.branch = "advancing"
    /\ 5 * LoadedSentences = 4 * step.config.story_max_sentences
    /\ SentenceCount(step.current_story) > LoadedSentences
    /\ \E q \in CallsOf("send_poll") :
          /\ step.calls[q].args.ok
          /\ step.calls[q].args.options[4] # end_story_option
    /\ \E i \in CallsOf("generate_poll_options") :
          ~step.calls[i].args.make_end_story_option

\* the option lists the step handed to send_poll
SentOptions == {step.calls[i].args.options : i \in CallsOf("send_poll")}

\* four options, each non-empty and at most 90 characters long
WellFormedOptions(options) ==
    /\ Len(options) = 4
    /\ \A k \in 1..Len(options) :
          Len(options[k]) >= 1 /\ Len(options[k]) <= 90

\* C31: every poll a step posts (each list handed to send_poll, each poll
\* of the channel) has exactly four options, each non-empty and at most 90
\* characters long; when the option list returned for the poll has another
\* length, the step does not call send_poll.
C31_PollsHaveFourBoundedOptions ==
    /\ \A options \in SentOptions : WellFormedOptions(options)
    /\ \A id \in DOMAIN polls : WellFormedOptions(polls[id].options)
    /\ \A i \in CallsOf("generate_poll_options") :
          Len(step.calls[i].args.result) # 4 => CallsOf("send_poll") = {}

C31_Witness ==
    /\ step.new_poll_message_id # NoneId
    /\ step.new_poll_message_id \in DOMAIN polls
    /\ Len(polls[step.new_poll_message_id].options[3]) = 90
    /\ polls[step.new_poll_message_id].options[1] = <<"A">>

\* the texts of the step's send_message calls, in the order of the calls
RECURSIVE SentTexts(_)
SentTexts(calls) ==
    IF calls = <<>> THEN <<>>
    ELSE (IF Head(calls).op = "send_message"
          THEN <<Head(calls).args.text>> ELSE <<>>)
             \o SentTexts(Tail(calls))

\* every call of the first operation comes before every call of the second
Before(op1, op2) ==
    \A i \in CallsOf(op1), j \in CallsOf(op2) : i < j

\* C32: an Advancing step sends its messages in the order image, story
\* text (its chunks in order), audio, new poll: each of them comes after
\* the asset generation, the image is sent only when one was generated and
\* the audio only when one was generated.
C32_PostingOrder ==
    step.branch = "advancing" =>
        /\ Before("send_photo", "send_message")
        /\ Before("send_photo", "send_audio")
        /\ Before("send_message", "send_audio")
        /\ Before("send_photo", "send_poll")
        /\ Before("send_message", "send_poll")
        /\ Before("send_audio", "send_poll")
        /\ Cardinality(CallsOf("send_photo")) <= 1
        /\ Cardinality(CallsOf("send_audio")) <= 1
        /\ Cardinality(CallsOf("send_poll")) <= 1
        /\ CallsOf("send_photo") # {} => step.image
        /\ CallsOf("send_audio") # {} => step.audio
        /\ \E n \in 0..Len(Chunks(step.new_story_part,
                                  telegram_max_message_length)) :
              SentTexts(step.calls) =
                  SubSeq(Chunks(step.new_story_part,
                                telegram_max_message_length), 1, n)

C32_Witness ==
    /\ step.branch = "advancing"
    /\ Cardinality(CallsOf("send_photo")) = 1
    /\ Cardinality(CallsOf("send_message")) = 2
    /\ Cardinality(CallsOf("send_audio")) = 1
    /\ Cardinality(CallsOf("send_poll")) = 1
    /\ \A i \in CallsOf("send_poll") : step.calls[i].args.ok

\* the concatenation of a sequence of texts
RECURSIVE Concat(_)
Concat(texts) ==
    IF texts = <<>> THEN <<>> ELSE Head(texts) \o Concat(Tail(texts))

\* C33: an Advancing step that posted its content sent the story part as
\* text messages of at most 4096 characters each whose concatenation, in
\* the order sent, is the story part; a part of at most 4096 characters was
\* sent as one message, a longer one as more than one.
C33_ChunksCoverText ==
    (step.branch = "advancing" /\ ContentPosted) =>
        /\ Concat(SentTexts(step.calls)) = step.new_story_part
        /\ \A i \in CallsOf("send_message") :
              /\ Len(step.calls[i].args.text) <= telegram_max_message_length
              /\ Len(step.calls[i].args.text) >= 1
        /\ Len(step.new_story_part) <= telegram_max_message_length =>
              Cardinality(CallsOf("send_message")) = 1
        /\ Len(step.new_story_part) > telegram_max_message_length =>
              Cardinality(CallsOf("send_message")) > 1

C33_Witness ==
    /\ step.branch = "advancing"
    /\ ContentPosted
    /\ Len(step.new_story_part) > telegram_max_message_length
    /\ Len(SentTexts(step.calls)) = 2
    /\ Len(SentTexts(step.calls)[1]) = telegram_max_message_length
    /\ Len(SentTexts(step.calls)[2]) =
           Len(step.new_story_part) - telegram_max_message_length

\* the step was told by stop_poll that its pending poll is already closed
\* (a poll is closed only by the stop_poll of a step, so an earlier step
\* closed it and did not replace the id in the state file)
RetriesClosedPoll ==
    \E i \in CallsOf("stop_poll") :
        step.calls[i].args.outcome = "BadRequest_closed"

\* C34: a step that aborts after it closed the pending poll leaves the
\* state file, and so the pending poll id, as it was, and whatever
\* stop_poll answers for that closed poll, get_poll_winner returns None;
\* a step whose stop_poll fails has no winner, does not finish the story
\* on account of the poll, and, when Advancing, passes the fallback prompt
\* to the generation backend.
C34_RetryLosesWinner ==
    /\ (pc = "idle" /\ step.outcome = "aborted" /\ PollClosed) =>
          /\ state_file = step.file_at_start
          /\ Readable(state_file)
          /\ StoppedPolls = {state_file.data.last_poll_message_id}
          /\ \A id \in StoppedPolls :
                /\ polls[id].closed
                /\ \A stop \in StopResults(polls[id]) :
                      get_poll_winner(id, stop) = {NoneText}
    /\ StopPollFailed =>
          /\ step.poll_winner = NoneText
          /\ \A i \in CallsOf("generate_story_continuation") :
                step.branch = "advancing" =>
                    /\ step.calls[i].args.user_choice
                           = fallback_continue_prompt
                    /\ step.calls[i].args.end_story <=>
                           LoadedSentences > step.config.story_max_sentences

C34_Witness ==
    /\ RetriesClosedPoll
    /\ step.branch = "advancing"
    /\ SavedOk
    /\ GenerationCall.user_choice = fallback_continue_prompt
    /\ step.poll_winner = NoneText
    /\ state_file.data.last_poll_message_id \notin StoppedPolls

\* reading the existing state file raised an OS error
ReadRaisedOSError ==
    /\ Len(step.calls) >= 1
    /\ step.calls[1].op = "load_state"
    /\ step.calls[1].args = "oserror"
    /\ step.file_at_start.kind # "missing"

\* C35: a step whose read of the existing state file raised an OS error
\* works on the zero-value state: it is not stopped by load_state, closes
\* no poll, takes the Bootstrap branch, and when its save succeeds the
\* state file holds the introductory text as the narrative, the premise of
\* the step's generation call, the poll the step posted (or none) and
\* finished = false, whatever the file held before.
C35_OSErrorReadBootstraps ==
    ReadRaisedOSError =>
        /\ step.outcome # "crashed"
        /\ step.loaded = ZeroState
        /\ step.branch \in {"none", "bootstrap"}
        /\ pc \notin {"idle", "resolve", "generate"} =>
               step.branch = "bootstrap"
        /\ CallsOf("stop_poll") = {}
        /\ SavedOk =>
              /\ Readable(state_file)
              /\ state_file.data =
                     StoryState(initial_story_idea, GenerationCall.result[2],
                                step.new_poll_message_id, FALSE)
              /\ step.new_poll_message_id # NoneId =>
                     PostedPolls = {step.new_poll_message_id}

C35_Witness ==
    /\ ReadRaisedOSError
    /\ SavedOk
    /\ Readable(step.file_at_start)
    /\ Len(step.file_at_start.data.current_story) > Len(initial_story_idea)
    /\ step.file_at_start.data.main_idea = <<"n">>
    /\ step.file_at_start.data.last_poll_message_id # NoneId
    /\ state_file.data.current_story = initial_story_idea
    /\ state_file.data.main_idea = <<"m">>
    /\ state_file.data.last_poll_message_id
           # step.file_at_start.data.last_poll_message_id

\* posting the image, or the audio, failed
PhotoFailed == \E i \in CallsOf("send_photo") : ~step.calls[i].args.ok

AudioFailed == \E i \in CallsOf("send_audio") : ~step.calls[i].args.ok

\* C36: when posting the image or the audio fails, the step ends there:
\* it makes no later call (no poll options, no poll, no save) and the
\* state file is the one it started from; so after a failed audio post the
\* persisted narrative is still the loaded one, without the story text the
\* step has already posted.
C36_OptionalPostFailureAborts ==
    (PhotoFailed \/ AudioFailed) =>
        /\ pc = "idle"
        /\ step.outcome = "aborted"
        /\ StateUntouched
        /\ CallsOf("generate_poll_options") = {}
        /\ CallsOf("send_poll") = {}
        /\ step.new_poll_message_id = NoneId
        /\ ~step.calls[Len(step.calls)].args.ok
        /\ (AudioFailed /\ step.branch = "advancing") =>
              /\ \A i \in CallsOf("send_message") : step.calls[i].args.ok
              /\ Concat(SentTexts(step.calls)) = step.new_story_part
              /\ step.current_story = step.loaded.current_story
              /\ Readable(state_file) /\ ReadOk =>
                     state_file.data.current_story
                         = step.loaded.current_story

C36_Witness ==
    /\ AudioFailed
    /\ step.branch = "advancing"
    /\ \E i \in CallsOf("send_photo") : step.calls[i].args.ok
    /\ \E i \in CallsOf("send_message") :
          /\ step.calls[i].args.ok
          /\ step.calls[i].args.text = step.new_story_part
    /\ Readable(state_file)
    /\ state_file.data.current_story = step.loaded.current_story
    /\ step.loaded.last_poll_message_id # NoneId

\* posting the new poll failed
PollSendFailed == \E i \in CallsOf("send_poll") : ~step.calls[i].args.ok

\* C37: when send_poll fails the step is not aborted: it goes on to the
\* save, the state it hands to save_state holds the step's narrative
\* (with the new text), the new premise, no pending poll id and
\* finished = false, and that is the content of the state file when the
\* write succeeds; no poll was added to the channel.
C37_PollSendFailureAbsorbed ==
    PollSendFailed =>
        /\ pc \in {"persist", "idle"}
        /\ pc = "idle" => step.outcome = "ok"
        /\ step.error = ""
        /\ step.new_poll_message_id = NoneId
        /\ PostedPolls = {}
        /\ (pc = "idle" /\ ~step.config.dry_run) => SavedStates # {}
        /\ \A state \in SavedStates :
              state = StoryState(StepNarrative, StepPremise, NoneId, FALSE)
        /\ SavedOk =>
              state_file =
                  FileMapping(StoryState(StepNarrative, StepPremise,
                                         NoneId, FALSE))

C37_Witness ==
    /\ PollSendFailed
    /\ SavedOk
    /\ step.branch = "advancing"
    /\ step.loaded.last_poll_message_id # NoneId
    /\ step.loaded.main_idea = <<"m">>
    /\ state_file.data.main_idea = <<"n">>
    /\ state_file.data.current_story
           = step.loaded.current_story \o step.new_story_part
    /\ state_file.data.last_poll_message_id = NoneId
    /\ ~state_file.data.story_finished

LegacyIntroPosted ==
    /\ step.branch = "bootstrap"
    /\ \E i \in CallsOf("send_message") :
          /\ step.calls[i].args.ok
          /\ step.calls[i].args.text = initial_story_idea

\* C39: in the legacy variant, a first step that posted the introductory
\* text gets through the poll stage and (unless DRY_RUN) hands a state with
\* the introductory text as narrative to save_state.
C39_LegacyFirstStepPersists ==
    (LegacyIntroPosted /\ pc = "idle" /\ ~step.dry_run) =>
        /\ step.outcome = "ok"
        /\ \E state \in SavedStates :
              state.current_story = initial_story_idea

\* the step posted the introductory text
IntroPosted ==
    \E i \in CallsOf("send_message") :
        step.calls[i].args.text = initial_story_idea

\* C40: every persisted state has a non-empty narrative (the introductory
\* text is not empty in a valid configuration), so a step that loads a
\* persisted state is Finished or Advancing and does not post the
\* introductory text; a Bootstrap step started from a missing file or from
\* a read that raised an OS error.
C40_BootstrapOnlyBeforeFirstSave ==
    /\ \A state \in SavedStates : Truthy(state.current_story)
    /\ Readable(state_file) => Truthy(state_file.data.current_story)
    /\ (ReadOk /\ Readable(step.file_at_start)) =>
          /\ step.loaded = step.file_at_start.data
          /\ step.branch \in {"none", "advancing", "finished"}
          /\ pc \notin {"idle", "resolve", "generate"} =>
                 step.branch = "advancing"
          /\ ~IntroPosted
    /\ step.branch = "bootstrap" =>
          \/ step.file_at_start = FileMissing
          \/ ReadRaisedOSError

C40_Witness ==
    /\ SavedOk
    /\ ReadOk
    /\ step.branch = "advancing"
    /\ step.file_at_start =
           FileMapping(StoryState(initial_story_idea, <<"m">>, NoneId, FALSE))
    /\ ~IntroPosted
    /\ Cardinality(CallsOf("send_message")) = 1

====
